---- MODULE Spec2Model ----
(***************************************************************************)
(* The document mutation and suggestion-lifecycle engine of the TEI NER   *)
(* correction tool (utils/teiUtils.ts), over an explicit node heap, and   *)
(* the App component's document, history and service-call state (App.tsx). *)
(*                                                                         *)
(* A DOM tree is a set of node objects linked by childNodes / parentNode. *)
(* The heap is a sequence of node records; a node reference is its index  *)
(* in the heap, NULL is the null reference.  Every utility takes the heap *)
(* and returns the heap after its statements have run, so that in-place   *)
(* mutation, cloning and aliasing are what the code makes them.           *)
(***************************************************************************)
EXTENDS Integers, Sequences, FiniteSets, TLC

VARIABLES heap, xmlDoc, call, app, retry

vars == <<heap, xmlDoc, call, app, retry>>

(***************************************************************************)
(* Bounds of the model.                                                    *)
(***************************************************************************)
\* Selection offsets handed to wrapSelectionInTag range over 0..MaxOffset.
MaxOffset == 3

\* The App runs at most MaxSteps handlers and service responses.
MaxSteps == 3

(***************************************************************************)
(* Values.                                                                 *)
(***************************************************************************)
NULL == 0

\* getAttribute on an absent attribute, and the tagName of a non-element.
NoAttr == "null"
Undefined == "undefined"

NoAttrs == [mode |-> NoAttr, type |-> NoAttr, xmlid |-> NoAttr, id |-> NoAttr]

\* Tree values: what a document looks like, independent of node identity.
Txt(s) == [nodeType |-> "text", tagName |-> Undefined, attrs |-> NoAttrs,
           data |-> s, childNodes |-> <<>>]

Cmt(s) == [nodeType |-> "comment", tagName |-> Undefined, attrs |-> NoAttrs,
           data |-> s, childNodes |-> <<>>]

El(tag, kids) == [nodeType |-> "element", tagName |-> tag, attrs |-> NoAttrs,
                  data |-> <<>>, childNodes |-> kids]

Sug(mode, type, kids) == [nodeType |-> "element", tagName |-> "suggestion",
                          attrs |-> [NoAttrs EXCEPT !.mode = mode, !.type = type],
                          data |-> <<>>, childNodes |-> kids]

\* A page container <div xml:id=... id=...>.
Div(xmlid, id, kids) == [nodeType |-> "element", tagName |-> "div",
                         attrs |-> [NoAttrs EXCEPT !.xmlid = xmlid, !.id = id],
                         data |-> <<>>, childNodes |-> kids]

Doc(kids) == [nodeType |-> "document", tagName |-> Undefined, attrs |-> NoAttrs,
              data |-> <<>>, childNodes |-> kids]

(***************************************************************************)
(* Sequence helpers.                                                       *)
(***************************************************************************)
IndexOf(s, x) == CHOOSE i \in 1..Len(s) : s[i] = x

RemoveAt(s, i) == SubSeq(s, 1, i - 1) \o SubSeq(s, i + 1, Len(s))

InsertAt(s, i, x) == SubSeq(s, 1, i - 1) \o <<x>> \o SubSeq(s, i, Len(s))

Contains(s, x) == \E i \in 1..Len(s) : s[i] = x

Min(a, b) == IF a < b THEN a ELSE b

Max(a, b) == IF a > b THEN a ELSE b

\* A substring that takes the character at `end` too.
SubstringInclusive(s, start, end) ==
  LET a == Min(Max(start, 0), Len(s))
      b == Min(Max(end, 0), Len(s))
  IN SubSeq(s, Min(a, b) + 1, Min(Max(a, b) + 1, Len(s)))

\* String.prototype.substring(start, end): both clamped to [0, length],
\* swapped when start > end.  Strings are sequences of characters.
Substring(s, start, end) ==
  LET a == Min(Max(start, 0), Len(s))
      b == Min(Max(end, 0), Len(s))
  IN SubSeq(s, Min(a, b) + 1, Max(a, b))

(***************************************************************************)
(* The node heap.                                                          *)
(***************************************************************************)
\* A machine state: the heap and whether a DOMException has been thrown
\* (once thrown, the remaining statements of the utility do not run).
Machine(h) == [heap |-> h, threw |-> FALSE]

Throw(m) == [m EXCEPT !.threw = TRUE]

NewId(h) == Len(h) + 1

RECURSIVE Alloc(_, _, _)
RECURSIVE AllocKids(_, _, _, _)
\* Build the nodes of tree value t at the end of heap h, under `parent`.
Alloc(h, t, parent) ==
  LET id == NewId(h)
      h1 == Append(h, [nodeType |-> t.nodeType, tagName |-> t.tagName,
                       attrs |-> t.attrs, data |-> t.data,
                       childNodes |-> <<>>, parentNode |-> parent])
  IN AllocKids(h1, t.childNodes, id, 1)

AllocKids(h, kids, parent, i) ==
  IF i > Len(kids) THEN h
  ELSE LET kid == NewId(h)
           h1 == Alloc(h, kids[i], parent)
           h2 == [h1 EXCEPT ![parent].childNodes = Append(@, kid)]
       IN AllocKids(h2, kids, parent, i + 1)

RECURSIVE ToTree(_, _)
\* The tree value rooted at node n.
ToTree(h, n) ==
  [nodeType |-> h[n].nodeType, tagName |-> h[n].tagName, attrs |-> h[n].attrs,
   data |-> h[n].data,
   childNodes |-> [i \in 1..Len(h[n].childNodes) |-> ToTree(h, h[n].childNodes[i])]]

IsText(h, n) == h[n].nodeType = "text"

IsElement(h, n) == h[n].nodeType = "element"

IsDocument(h, n) == h[n].nodeType = "document"

\* Element.tagName; undefined on every other kind of node.
TagName(h, n) == IF IsElement(h, n) THEN h[n].tagName ELSE Undefined

FirstChild(h, n) == IF h[n].childNodes = <<>> THEN NULL ELSE h[n].childNodes[1]

NextSibling(h, n) ==
  LET p == h[n].parentNode
  IN IF p = NULL THEN NULL
     ELSE LET i == IndexOf(h[p].childNodes, n)
          IN IF i = Len(h[p].childNodes) THEN NULL ELSE h[p].childNodes[i + 1]

RECURSIVE IsInclusiveAncestor(_, _, _)
IsInclusiveAncestor(h, a, n) ==
  IF n = NULL THEN FALSE
  ELSE IF a = n THEN TRUE
  ELSE IsInclusiveAncestor(h, a, h[n].parentNode)

RECURSIVE TextContent(_, _)
RECURSIVE TextContentOfKids(_, _, _)
\* Node.textContent: the data of a Text or Comment node; the concatenated
\* text of the Text descendants of an Element.
TextContent(h, n) ==
  IF h[n].nodeType \in {"text", "comment"} THEN h[n].data
  ELSE TextContentOfKids(h, h[n].childNodes, 1)

TextContentOfKids(h, kids, i) ==
  IF i > Len(kids) THEN <<>>
  ELSE (IF h[kids[i]].nodeType = "comment" THEN <<>> ELSE TextContent(h, kids[i]))
       \o TextContentOfKids(h, kids, i + 1)

(***************************************************************************)
(* DOM primitives, as the utilities call them.                             *)
(***************************************************************************)
\* Names createElement rejects with InvalidCharacterError.
InvalidNames == {"", "pers name"}

IsValidName(name) == name \notin InvalidNames

\* Take node n out of its parent's child list.
Detach(h, n) ==
  LET p == h[n].parentNode
  IN IF p = NULL THEN h
     ELSE [h EXCEPT ![p].childNodes = RemoveAt(@, IndexOf(@, n)),
                    ![n].parentNode = NULL]

HasElementChildOtherThan(h, parent, child) ==
  \E i \in 1..Len(h[parent].childNodes) :
    /\ IsElement(h, h[parent].childNodes[i])
    /\ h[parent].childNodes[i] # child

IsFragment(h, n) == h[n].nodeType = "fragment"

\* The nodes an insertion of `node` puts in the tree: the children of a
\* DocumentFragment, the node itself otherwise.
InsertedNodes(h, node) == IF IsFragment(h, node) THEN h[node].childNodes ELSE <<node>>

\* What a Document accepts in place of `child` (NULL: in addition to its
\* children): no Text, and an Element only if it then has one Element child.
DocumentAccepts(h, parent, node, child) ==
  LET nodes == InsertedNodes(h, node)
      elements == SelectSeq(nodes, LAMBDA n : IsElement(h, n))
  IN /\ \A i \in 1..Len(nodes) : ~IsText(h, nodes[i])
     /\ Len(elements) <= 1
     /\ Len(elements) = 1 => ~HasElementChildOtherThan(h, parent, child)

\* "Ensure pre-insertion validity": the parent is a Document, a
\* DocumentFragment or an Element; a node is not inserted under itself; the
\* reference child is a child of the parent; a Document stays well-formed.
PreInsertOk(h, parent, node, child) ==
  /\ h[parent].nodeType \in {"document", "fragment", "element"}
  /\ ~IsInclusiveAncestor(h, node, parent)
  /\ child = NULL \/ h[child].parentNode = parent
  /\ ~IsDocument(h, node)
  /\ IsDocument(h, parent) => DocumentAccepts(h, parent, node, NULL)

PreReplaceOk(h, parent, node, child) ==
  /\ h[parent].nodeType \in {"document", "fragment", "element"}
  /\ ~IsInclusiveAncestor(h, node, parent)
  /\ h[child].parentNode = parent
  /\ ~IsDocument(h, node)
  /\ IsDocument(h, parent) => DocumentAccepts(h, parent, node, child)

RECURSIVE DetachEach(_, _, _)
DetachEach(h, nodes, i) ==
  IF i > Len(nodes) THEN h ELSE DetachEach(Detach(h, nodes[i]), nodes, i + 1)

\* Put `nodes` (parentless) into parent's child list at position pos.
Splice(h, parent, pos, nodes) ==
  LET kids == h[parent].childNodes
      newKids == SubSeq(kids, 1, pos - 1) \o nodes \o SubSeq(kids, pos, Len(kids))
  IN [n \in 1..Len(h) |->
        IF n = parent THEN [h[n] EXCEPT !.childNodes = newKids]
        ELSE IF Contains(nodes, n) THEN [h[n] EXCEPT !.parentNode = parent]
        ELSE h[n]]

\* parent.insertBefore(node, child); child = NULL appends.
InsertBefore(m, parent, node, child) ==
  IF m.threw THEN m
  ELSE IF ~PreInsertOk(m.heap, parent, node, child) THEN Throw(m)
  ELSE LET ref == IF child = node THEN NextSibling(m.heap, node) ELSE child
           nodes == InsertedNodes(m.heap, node)
           h1 == DetachEach(m.heap, nodes, 1)
           kids == h1[parent].childNodes
           pos == IF ref = NULL THEN Len(kids) + 1 ELSE IndexOf(kids, ref)
       IN [m EXCEPT !.heap = Splice(h1, parent, pos, nodes)]

\* parent.appendChild(node)
AppendChild(m, parent, node) == InsertBefore(m, parent, node, NULL)

\* A removeChild that leaves the child where it is.
RemoveChildSkipped(m, parent, child) == m

\* parent.removeChild(child)
RemoveChild(m, parent, child) ==
  IF m.threw THEN m
  ELSE IF m.heap[child].parentNode # parent THEN Throw(m)
  ELSE [m EXCEPT !.heap = Detach(m.heap, child)]

\* parent.replaceChild(node, child)
ReplaceChild(m, parent, node, child) ==
  IF m.threw THEN m
  ELSE IF ~PreReplaceOk(m.heap, parent, node, child) THEN Throw(m)
  ELSE IF node = child THEN m
  ELSE LET nodes == InsertedNodes(m.heap, node)
           h1 == DetachEach(m.heap, nodes, 1)
           pos == IndexOf(h1[parent].childNodes, child)
       IN [m EXCEPT !.heap = Splice(Detach(h1, child), parent, pos, nodes)]

\* document.createTextNode(data): the new node is NewId of the heap before.
CreateTextNode(m, data) ==
  IF m.threw THEN m
  ELSE [m EXCEPT !.heap = Alloc(@, Txt(data), NULL)]

\* document.createElement(name): the new node is NewId of the heap before.
CreateElement(m, name) ==
  IF m.threw THEN m
  ELSE IF ~IsValidName(name) THEN Throw(m)
  ELSE [m EXCEPT !.heap = Alloc(@, El(name, <<>>), NULL)]

\* document.createDocumentFragment(): the new node is NewId of the heap before.
CreateDocumentFragment(m) ==
  IF m.threw THEN m
  ELSE [m EXCEPT !.heap = Alloc(@, [nodeType |-> "fragment", tagName |-> Undefined,
                                    attrs |-> NoAttrs, data |-> <<>>,
                                    childNodes |-> <<>>], NULL)]

RECURSIVE DetachAll(_, _)
DetachAll(h, n) ==
  IF h[n].childNodes = <<>> THEN h ELSE DetachAll(Detach(h, FirstChild(h, n)), n)

\* A textContent setter that keeps the children an element already has.
SetTextContentKeepingMarkup(m, n, text) ==
  IF m.threw THEN m
  ELSE IF m.heap[n].nodeType \in {"text", "comment"}
    THEN [m EXCEPT !.heap = [@ EXCEPT ![n].data = text]]
  ELSE IF m.heap[n].nodeType = "element" /\ text # <<>>
    THEN LET t == Len(m.heap) + 1
             h2 == Append(m.heap, [nodeType |-> "text", tagName |-> "undefined",
                                   attrs |-> m.heap[n].attrs, data |-> text,
                                   childNodes |-> <<>>, parentNode |-> n])
         IN [m EXCEPT !.heap = [h2 EXCEPT ![n].childNodes = Append(@, t)]]
  ELSE m

\* node.textContent = text: an Element loses every child and gets one Text
\* child unless text is empty; a Text or Comment node gets the data; a
\* Document is left alone.
SetTextContent(m, n, text) ==
  IF m.threw THEN m
  ELSE IF m.heap[n].nodeType \in {"text", "comment"}
    THEN [m EXCEPT !.heap = [@ EXCEPT ![n].data = text]]
  ELSE IF IsElement(m.heap, n)
    THEN LET h1 == DetachAll(m.heap, n)
         IN IF text = <<>> THEN [m EXCEPT !.heap = h1]
            ELSE LET t == NewId(h1)
                     h2 == Alloc(h1, Txt(text), n)
                 IN [m EXCEPT !.heap = [h2 EXCEPT ![n].childNodes = <<t>>]]
  ELSE m

RECURSIVE NormalizeHeap(_, _)
RECURSIVE NormalizeFrom(_, _, _)
\* node.normalize(): in the whole subtree, empty Text nodes are removed and
\* each run of adjacent Text nodes is merged into the first node of the run.
NormalizeHeap(h, n) == NormalizeFrom(h, n, 1)

NormalizeFrom(h, n, i) ==
  LET kids == h[n].childNodes
  IN IF i > Len(kids) THEN h
     ELSE LET k == kids[i]
          IN IF IsText(h, k)
               THEN IF h[k].data = <<>>
                      THEN NormalizeFrom(Detach(h, k), n, i)
                    ELSE IF i < Len(kids) /\ IsText(h, kids[i + 1])
                      THEN LET nxt == kids[i + 1]
                               h1 == [h EXCEPT ![k].data = @ \o h[nxt].data]
                           IN NormalizeFrom(Detach(h1, nxt), n, i)
                    ELSE NormalizeFrom(h, n, i + 1)
             ELSE IF IsElement(h, k)
               THEN NormalizeFrom(NormalizeHeap(h, k), n, i + 1)
             ELSE NormalizeFrom(h, n, i + 1)

\* A normalize that does nothing.
NormalizeSkipped(m, n) == m

Normalize(m, n) ==
  IF m.threw THEN m ELSE [m EXCEPT !.heap = NormalizeHeap(@, n)]

\* A clone that is the node itself: the utility then edits the caller's tree.
cloneNodeAliased(h, n) == [heap |-> h, node |-> n]

\* node.cloneNode(true): a deep copy made of new nodes, with no parent.
cloneNode(h, n) == [heap |-> Alloc(h, ToTree(h, n), NULL), node |-> NewId(h)]

\* document.importNode(node, true): a deep copy owned by the importing
\* document.  The copy is NewId of the heap before.
ImportNode(m, n) ==
  IF m.threw THEN m ELSE [m EXCEPT !.heap = Alloc(@, ToTree(@, n), NULL)]

RECURSIVE DescendantsOfKids(_, _, _)
\* The descendants of n in document order (n itself excluded).
Descendants(h, n) == DescendantsOfKids(h, h[n].childNodes, 1)

DescendantsOfKids(h, kids, i) ==
  IF i > Len(kids) THEN <<>>
  ELSE <<kids[i]>> \o Descendants(h, kids[i]) \o DescendantsOfKids(h, kids, i + 1)

\* element.querySelectorAll('suggestion'): in an XML document the type
\* selector matches the tag name as written.
QuerySelectorAll(h, n, tag) ==
  SelectSeq(Descendants(h, n), LAMBDA d : IsElement(h, d) /\ h[d].tagName = tag)

\* document.documentElement
DocumentElement(h, d) ==
  LET els == SelectSeq(h[d].childNodes, LAMBDA k : IsElement(h, k))
  IN IF els = <<>> THEN NULL ELSE els[1]

(***************************************************************************)
(* Path addressing.  A path is a string "i:j:k", here a sequence of       *)
(* characters.                                                             *)
(***************************************************************************)
DigitChars == <<"0", "1", "2", "3", "4", "5", "6", "7", "8", "9">>

IsDigit(c) == Contains(DigitChars, c)

\* Number's NaN: no child list has it as an index.
NaN == -1

RECURSIVE Split(_, _)
\* path.split(sep): the pieces between separators, empty pieces included.
Split(str, sep) ==
  IF ~Contains(str, sep) THEN <<str>>
  ELSE LET i == CHOOSE j \in 1..Len(str) :
                  str[j] = sep /\ \A k \in 1..(j - 1) : str[k] # sep
       IN <<SubSeq(str, 1, i - 1)>> \o Split(SubSeq(str, i + 1, Len(str)), sep)

RECURSIVE DecimalValue(_)
DecimalValue(tok) ==
  IF tok = <<>> THEN 0
  ELSE 10 * DecimalValue(SubSeq(tok, 1, Len(tok) - 1))
       + (IndexOf(DigitChars, tok[Len(tok)]) - 1)

\* Number(token): 0 for the empty string, the decimal value of a run of
\* digits, NaN otherwise.
Number(tok) ==
  IF \A i \in 1..Len(tok) : IsDigit(tok[i]) THEN DecimalValue(tok) ELSE NaN

RECURSIVE ToStr(_)
\* `${index}`
ToStr(n) ==
  IF n < 10 THEN <<DigitChars[n + 1]>>
  ELSE ToStr(n \div 10) \o <<DigitChars[(n % 10) + 1]>>

\* A child path that counts the children from one.
ChildPathFromOne(path, index) ==
  IF path = <<>> THEN ToStr(index + 1) ELSE path \o <<":">> \o ToStr(index + 1)

\* currentPath === "" ? `${i}` : `${currentPath}:${i}`
ChildPath(path, index) ==
  IF path = <<>> THEN ToStr(index) ELSE path \o <<":">> \o ToStr(index)

RECURSIVE WalkIndicesLenient(_, _, _, _)
\* A walk that stops at the last node it reached instead of failing.
WalkIndicesLenient(h, current, indices, i) ==
  IF i > Len(indices) THEN current
  ELSE IF indices[i] >= 0 /\ indices[i] < Len(h[current].childNodes)
    THEN WalkIndicesLenient(h, h[current].childNodes[indices[i] + 1], indices, i + 1)
  ELSE current

RECURSIVE WalkIndicesFromOne(_, _, _, _)
\* A walk that counts children from 1.
WalkIndicesFromOne(h, current, indices, i) ==
  IF i > Len(indices) THEN current
  ELSE IF indices[i] >= 1 /\ indices[i] <= Len(h[current].childNodes)
    THEN WalkIndicesFromOne(h, h[current].childNodes[indices[i]], indices, i + 1)
  ELSE NULL

RECURSIVE WalkIndices(_, _, _, _)
WalkIndices(h, current, indices, i) ==
  IF i > Len(indices) THEN current
  ELSE IF indices[i] >= 0 /\ indices[i] < Len(h[current].childNodes)
    THEN WalkIndices(h, h[current].childNodes[indices[i] + 1], indices, i + 1)
  ELSE NULL

getNodeByPath(h, doc, path) ==
  IF path = <<>> THEN doc
  ELSE LET pieces == Split(path, ":")
           indices == [i \in 1..Len(pieces) |-> Number(pieces[i])]
       IN WalkIndices(h, doc, indices, 1)

(***************************************************************************)
(* The tree mutators.  Each returns the heap after the call, the document *)
(* reference it returns (NULL when it throws) and whether it threw.       *)
(***************************************************************************)
Result(m, ret) ==
  [heap |-> m.heap, ret |-> IF m.threw THEN NULL ELSE ret, threw |-> m.threw]

wrapSelectionInTag(h, doc, path, startOffset, endOffset, tagName) ==
  LET copy == cloneNode(h, doc)
      m0 == Machine(copy.heap)
      newDoc == copy.node
      targetNode == getNodeByPath(m0.heap, newDoc, path)
  IN IF targetNode = NULL THEN Result(m0, doc)
     ELSE IF IsText(m0.heap, targetNode)
       THEN LET textContent == TextContent(m0.heap, targetNode)
                beforeText == Substring(textContent, 0, startOffset)
                selectedText == Substring(textContent, startOffset, endOffset)
                afterText == Substring(textContent, endOffset, Len(textContent))
                parent == m0.heap[targetNode].parentNode
            IN IF parent = NULL THEN Result(m0, doc)
               ELSE LET newElement == NewId(m0.heap)
                        m1 == CreateElement(m0, tagName)
                        m2 == SetTextContent(m1, newElement, selectedText)
                        m3 == IF afterText # <<>>
                                THEN InsertBefore(CreateTextNode(m2, afterText), parent,
                                                  NewId(m2.heap),
                                                  NextSibling(m2.heap, targetNode))
                                ELSE m2
                        m4 == ReplaceChild(m3, parent, newElement, targetNode)
                        m5 == IF beforeText # <<>>
                                THEN InsertBefore(CreateTextNode(m4, beforeText), parent,
                                                  NewId(m4.heap), newElement)
                                ELSE m4
                    IN Result(m5, newDoc)
     ELSE Result(m0, doc)

updateNodeText(h, doc, path, newText) ==
  LET copy == cloneNode(h, doc)
      m0 == Machine(copy.heap)
      newDoc == copy.node
      targetNode == getNodeByPath(m0.heap, newDoc, path)
  IN IF targetNode # NULL /\ (IsText(m0.heap, targetNode) \/ IsElement(m0.heap, targetNode))
       THEN LET m1 == SetTextContent(m0, targetNode, newText)
                parent == m1.heap[targetNode].parentNode
                m2 == IF parent # NULL THEN Normalize(m1, parent) ELSE m1
            IN Result(m2, newDoc)
     ELSE Result(m0, newDoc)

RECURSIVE MoveChildrenBefore(_, _, _, _)
\* while (from.firstChild) parent.insertBefore(from.firstChild, ref);
MoveChildrenBefore(m, from, parent, ref) ==
  IF m.threw \/ FirstChild(m.heap, from) = NULL THEN m
  ELSE MoveChildrenBefore(InsertBefore(m, parent, FirstChild(m.heap, from), ref),
                          from, parent, ref)

RECURSIVE MoveChildrenIntoFront(_, _, _)
\* A move that puts each child first in `to`, reversing their order.
MoveChildrenIntoFront(m, from, to) ==
  IF m.threw \/ FirstChild(m.heap, from) = NULL THEN m
  ELSE MoveChildrenIntoFront(InsertBefore(m, to, FirstChild(m.heap, from),
                                          FirstChild(m.heap, to)), from, to)

RECURSIVE MoveChildrenInto(_, _, _)
\* while (from.firstChild) to.appendChild(from.firstChild);
MoveChildrenInto(m, from, to) ==
  IF m.threw \/ FirstChild(m.heap, from) = NULL THEN m
  ELSE MoveChildrenInto(AppendChild(m, to, FirstChild(m.heap, from)), from, to)

unwrapTag(h, doc, path) ==
  LET copy == cloneNode(h, doc)
      m0 == Machine(copy.heap)
      newDoc == copy.node
      targetNode == getNodeByPath(m0.heap, newDoc, path)
  IN IF targetNode = NULL \/ ~IsElement(m0.heap, targetNode) THEN Result(m0, doc)
     ELSE LET parent == m0.heap[targetNode].parentNode
          IN IF parent = NULL THEN Result(m0, doc)
             ELSE LET m1 == MoveChildrenBefore(m0, targetNode, parent, targetNode)
                      m2 == RemoveChild(m1, parent, targetNode)
                      m3 == Normalize(m2, parent)
                  IN Result(m3, newDoc)

replaceNode(h, doc, path, newNode) ==
  LET copy == cloneNode(h, doc)
      m0 == Machine(copy.heap)
      newDoc == copy.node
      targetNode == getNodeByPath(m0.heap, newDoc, path)
  IN IF targetNode # NULL /\ m0.heap[targetNode].parentNode # NULL
       THEN LET importedNode == NewId(m0.heap)
                m1 == ImportNode(m0, newNode)
                m2 == ReplaceChild(m1, m1.heap[targetNode].parentNode,
                                   importedNode, targetNode)
            IN Result(m2, newDoc)
     ELSE Result(m0, newDoc)

(***************************************************************************)
(* The suggestion lifecycle.                                               *)
(***************************************************************************)
\* String.prototype.toLowerCase on the tag names of the model.
ToLowerCase(tag) ==
  CASE tag = "persName" -> "persname"
    [] tag = "placeName" -> "placename"
    [] tag = "PersName" -> "persname"
    [] tag = "TEI" -> "tei"
    [] tag = "teiHeader" -> "teiheader"
    [] OTHER -> tag

\* tag === 'persname' || tag === 'placename' || tag === 'name'
IsEntityTag(tag) == tag \in {"persname", "placename", "name"}

RECURSIVE UnwrapEntityChildren(_, _, _, _)
\* children.forEach(child => ...): each entity element among the children
\* listed before the loop has its own children moved before it and is
\* removed from the suggestion.
UnwrapEntityChildren(m, children, i, suggestion) ==
  IF m.threw \/ i > Len(children) THEN m
  ELSE LET child == children[i]
           m1 == IF IsElement(m.heap, child)
                    /\ IsEntityTag(ToLowerCase(m.heap[child].tagName))
                   THEN RemoveChild(MoveChildrenBefore(m, child, suggestion, child),
                                    suggestion, child)
                   ELSE m
       IN UnwrapEntityChildren(m1, children, i + 1, suggestion)

acceptSuggestion(h, doc, path, mode, type) ==
  LET copy == cloneNode(h, doc)
      m0 == Machine(copy.heap)
      newDoc == copy.node
      targetNode == getNodeByPath(m0.heap, newDoc, path)
  IN IF targetNode = NULL \/ TagName(m0.heap, targetNode) # "suggestion"
       THEN Result(m0, doc)
     ELSE LET parent == m0.heap[targetNode].parentNode
          IN IF parent = NULL THEN Result(m0, doc)
             ELSE IF mode = "deletion"
               THEN LET m1 == UnwrapEntityChildren(m0, m0.heap[targetNode].childNodes, 1,
                                                   targetNode)
                        m2 == MoveChildrenBefore(m1, targetNode, parent, targetNode)
                        m3 == RemoveChild(m2, parent, targetNode)
                    IN Result(Normalize(m3, parent), newDoc)
             ELSE LET newElement == NewId(m0.heap)
                      m1 == CreateElement(m0, type)
                      m2 == MoveChildrenInto(m1, targetNode, newElement)
                      m3 == ReplaceChild(m2, parent, newElement, targetNode)
                  IN Result(Normalize(m3, parent), newDoc)

\* s.getAttribute('type') || 'name'
OrElse(value, default) == IF value \in {NoAttr, ""} THEN default ELSE value

RECURSIVE RemoveEntityChildren(_, _, _, _)
\* The children.forEach of the accept-all loop: as in acceptSuggestion, on s.
RemoveEntityChildren(m, children, i, s) ==
  IF m.threw \/ i > Len(children) THEN m
  ELSE LET child == children[i]
           m1 == IF IsElement(m.heap, child)
                    /\ IsEntityTag(ToLowerCase(m.heap[child].tagName))
                   THEN RemoveChild(MoveChildrenBefore(m, child, s, child), s, child)
                   ELSE m
       IN RemoveEntityChildren(m1, children, i + 1, s)

RECURSIVE AcceptEachButFirst(_, _, _)
\* The loop with the bound i > 0: the first suggestion is never visited.
AcceptEachButFirst(m, suggestions, i) ==
  IF m.threw \/ i < 2 THEN m
  ELSE LET s == suggestions[i]
           mode == m.heap[s].attrs.mode
           type == OrElse(m.heap[s].attrs.type, "name")
           parent == m.heap[s].parentNode
       IN IF parent = NULL THEN AcceptEachButFirst(m, suggestions, i - 1)
          ELSE IF mode = "deletion"
            THEN LET m1 == RemoveEntityChildren(m, m.heap[s].childNodes, 1, s)
                     m2 == MoveChildrenBefore(m1, s, parent, s)
                 IN AcceptEachButFirst(RemoveChild(m2, parent, s), suggestions, i - 1)
          ELSE LET newEl == NewId(m.heap)
                   m1 == CreateElement(m, type)
                   m2 == MoveChildrenInto(m1, s, newEl)
               IN AcceptEachButFirst(ReplaceChild(m2, parent, newEl, s), suggestions, i - 1)

RECURSIVE AcceptEach(_, _, _)
\* for (let i = suggestions.length - 1; i >= 0; i--) { ... }
AcceptEach(m, suggestions, i) ==
  IF m.threw \/ i < 1 THEN m
  ELSE LET s == suggestions[i]
           mode == m.heap[s].attrs.mode
           type == OrElse(m.heap[s].attrs.type, "name")
           parent == m.heap[s].parentNode
       IN IF parent = NULL THEN AcceptEach(m, suggestions, i - 1)
          ELSE IF mode = "deletion"
            THEN LET m1 == RemoveEntityChildren(m, m.heap[s].childNodes, 1, s)
                     m2 == MoveChildrenBefore(m1, s, parent, s)
                 IN AcceptEach(RemoveChild(m2, parent, s), suggestions, i - 1)
          ELSE LET newEl == NewId(m.heap)
                   m1 == CreateElement(m, type)
                   m2 == MoveChildrenInto(m1, s, newEl)
               IN AcceptEach(ReplaceChild(m2, parent, newEl, s), suggestions, i - 1)

\* Mutates the tree of targetNode in place; reading nodeType of a null
\* targetNode is a TypeError.
acceptAllSuggestionsInNode(m, targetNode) ==
  IF m.threw THEN m
  ELSE IF targetNode = NULL THEN Throw(m)
  ELSE IF ~IsElement(m.heap, targetNode) THEN m
  ELSE AcceptEach(m, QuerySelectorAll(m.heap, targetNode, "suggestion"),
                  Len(QuerySelectorAll(m.heap, targetNode, "suggestion")))

declineSuggestion(h, doc, path) == unwrapTag(h, doc, path)

(***************************************************************************)
(* Page segmentation.                                                      *)
(***************************************************************************)
RECURSIVE traverse(_, _, _, _)
RECURSIVE traverseKids(_, _, _, _, _)
\* The pages found so far, extended by those of the subtree of node.
traverse(h, node, currentPath, pages) ==
  IF IsElement(h, node) /\ ToLowerCase(h[node].tagName) = "div"
    THEN Append(pages,
                [id |-> IF h[node].attrs.xmlid \notin {NoAttr, ""} THEN h[node].attrs.xmlid
                        ELSE IF h[node].attrs.id \notin {NoAttr, ""} THEN h[node].attrs.id
                        ELSE "page-" \o ToString(Len(pages) + 1),
                 path |-> currentPath,
                 node |-> node])
  ELSE traverseKids(h, node, currentPath, pages, 0)

traverseKids(h, node, currentPath, pages, i) ==
  IF i >= Len(h[node].childNodes) THEN pages
  ELSE traverseKids(h, node, currentPath,
                    traverse(h, h[node].childNodes[i + 1], ChildPath(currentPath, i), pages),
                    i + 1)

RECURSIVE traverseInto(_, _, _, _)
RECURSIVE traverseIntoKids(_, _, _, _, _)
\* A traversal that goes on below a page container it has recorded.
traverseInto(h, node, currentPath, pages) ==
  traverseIntoKids(h, node, currentPath,
                   IF IsElement(h, node) /\ h[node].tagName = "div"
                     THEN Append(pages, [id |-> "", path |-> currentPath, node |-> node])
                   ELSE pages, 0)

traverseIntoKids(h, node, currentPath, pages, i) ==
  IF i >= Len(h[node].childNodes) THEN pages
  ELSE traverseIntoKids(h, node, currentPath,
                        traverseInto(h, h[node].childNodes[i + 1],
                                     IF currentPath = <<>> THEN ToStr(i)
                                     ELSE currentPath \o <<":">> \o ToStr(i), pages),
                        i + 1)

getPagesNested(h, doc) == traverseIntoKids(h, doc, <<>>, <<>>, 0)

getPages(h, doc) == traverseKids(h, doc, <<>>, <<>>, 0)


(***************************************************************************)
(* The paths the renderer hands out (components/XmlNodeRenderer.tsx).      *)
(***************************************************************************)
\* A path as the renderer and App keep it: a string, here a sequence of
\* characters.  childPath = path ? `${path}:${index}` : `${index}`; the
\* children of an fw element are given the empty path.
RECURSIVE XmlNodeRenderer(_, _, _)
RECURSIVE XmlNodeRendererChildren(_, _, _, _)
\* The nodes XmlNodeRenderer draws for `node` under `path`, in document
\* order, each with the path it is drawn with and the control that carries
\* the path: the data-teipath of a text, entity or block span, the buttons
\* of a suggestion.  A comment, an empty text and a teiHeader draw nothing.
XmlNodeRenderer(h, node, path) ==
  IF IsText(h, node)
    THEN IF h[node].data = <<>> THEN <<>>
         ELSE <<[node |-> node, path |-> path, control |-> "text"]>>
  ELSE IF IsElement(h, node)
    THEN LET tagName == h[node].tagName
             children == XmlNodeRendererChildren(h, node, path, 0)
         IN IF tagName = "fw" THEN children
            ELSE IF tagName = "suggestion"
              THEN <<[node |-> node, path |-> path, control |-> "suggestion"]>> \o children
            ELSE IF tagName \in {"persName", "placeName", "name"}
              THEN <<[node |-> node, path |-> path, control |-> "entity"]>> \o children
            ELSE IF tagName = "teiHeader" THEN <<>>
            ELSE <<[node |-> node, path |-> path, control |-> "block"]>> \o children
  ELSE <<>>

XmlNodeRendererChildren(h, node, path, index) ==
  IF index >= Len(h[node].childNodes) THEN <<>>
  ELSE LET childPath == IF path # <<>> THEN path \o <<":">> \o ToStr(index)
                        ELSE ToStr(index)
       IN XmlNodeRenderer(h, h[node].childNodes[index + 1],
                          IF h[node].tagName = "fw" THEN <<>> ELSE childPath)
            \o XmlNodeRendererChildren(h, node, path, index + 1)

\* What App draws: the active page under its path when the document has
\* pages, else the document element under the empty path.
RenderView(h, doc, activePageIndex) ==
  LET pages == getPages(h, doc)
  IN IF Len(pages) > 0
       THEN XmlNodeRenderer(h, pages[activePageIndex + 1].node,
                            pages[activePageIndex + 1].path)
     ELSE IF DocumentElement(h, doc) = NULL THEN <<>>
     ELSE XmlNodeRenderer(h, DocumentElement(h, doc), <<>>)

(***************************************************************************)
(* Serialization and parsing.  An XML string is a sequence of units: one   *)
(* unit per character of text (a markup character is written as an entity  *)
(* reference), one per start tag, end tag, empty-element tag and comment.  *)
(***************************************************************************)
Unit(kind, name, attrs, data) ==
  [kind |-> kind, name |-> name, attrs |-> attrs, data |-> data]

Char(c) == Unit("char", "", NoAttrs, <<c>>)

EntityRef(name) == Unit("entity", name, NoAttrs, <<>>)

\* The text of a string that holds no markup, as handleFileUpload or a
\* service may receive it.
PlainText(s) == [i \in 1..Len(s) |-> Char(s[i])]

\* Character data is written with & and < and > escaped.
EscapeChar(c) ==
  CASE c = "&" -> EntityRef("amp")
    [] c = "<" -> EntityRef("lt")
    [] c = ">" -> EntityRef("gt")
    [] OTHER -> Char(c)

UnescapeUnit(u) ==
  IF u.kind = "char" THEN u.data[1]
  ELSE CASE u.name = "amp" -> "&"
         [] u.name = "lt" -> "<"
         [] u.name = "gt" -> ">"
         [] OTHER -> "?"

RECURSIVE SerializeNode(_)
RECURSIVE SerializeNodes(_)
\* XMLSerializer.serializeToString(node), on the tree of the node: a text
\* node leaves its characters and nothing else, an element without
\* children is written as an empty-element tag.
SerializeNode(t) ==
  CASE t.nodeType = "text" -> [i \in 1..Len(t.data) |-> EscapeChar(t.data[i])]
    [] t.nodeType = "comment" -> <<Unit("comment", "", NoAttrs, t.data)>>
    [] t.nodeType = "element" ->
         IF t.childNodes = <<>> THEN <<Unit("empty", t.tagName, t.attrs, <<>>)>>
         ELSE <<Unit("start", t.tagName, t.attrs, <<>>)>>
                \o SerializeNodes(t.childNodes)
                \o <<Unit("end", t.tagName, NoAttrs, <<>>)>>
    [] OTHER -> SerializeNodes(t.childNodes)

SerializeNodes(kids) ==
  IF kids = <<>> THEN <<>>
  ELSE SerializeNode(kids[1]) \o SerializeNodes(Tail(kids))

\* serializeXML(doc), for a node of a heap.
serializeXML(h, n) == SerializeNode(ToTree(h, n))

IsCharData(u) == u.kind \in {"char", "entity"}

RECURSIVE EndOfCharData(_, _)
\* The first position from i on that holds no character data.
EndOfCharData(xmlString, i) ==
  IF i > Len(xmlString) \/ ~IsCharData(xmlString[i]) THEN i
  ELSE EndOfCharData(xmlString, i + 1)

RECURSIVE ParseContent(_, _)
\* The nodes read from position i up to an end tag or the end of the
\* string: each maximal run of character data is one text node.  `ok` is
\* false when a start tag has no matching end tag.
ParseContent(xmlString, i) ==
  IF i > Len(xmlString) \/ xmlString[i].kind = "end"
    THEN [kids |-> <<>>, next |-> i, ok |-> TRUE]
  ELSE LET u == xmlString[i]
       IN IF IsCharData(u)
            THEN LET j == EndOfCharData(xmlString, i)
                     rest == ParseContent(xmlString, j)
                 IN [rest EXCEPT !.kids =
                       <<Txt([k \in 1..(j - i) |-> UnescapeUnit(xmlString[i + k - 1])])>> \o @]
          ELSE IF u.kind = "comment"
            THEN LET rest == ParseContent(xmlString, i + 1)
                 IN [rest EXCEPT !.kids = <<Cmt(u.data)>> \o @]
          ELSE IF u.kind = "empty"
            THEN LET rest == ParseContent(xmlString, i + 1)
                 IN [rest EXCEPT !.kids =
                       <<[El(u.name, <<>>) EXCEPT !.attrs = u.attrs]>> \o @]
          ELSE LET inner == ParseContent(xmlString, i + 1)
               IN IF ~inner.ok \/ inner.next > Len(xmlString)
                     \/ xmlString[inner.next].name # u.name
                    THEN [kids |-> <<>>, next |-> Len(xmlString) + 1, ok |-> FALSE]
                  ELSE LET rest == ParseContent(xmlString, inner.next + 1)
                       IN [rest EXCEPT !.kids =
                             <<[El(u.name, inner.kids) EXCEPT !.attrs = u.attrs]>> \o @]

\* The text of the error report a parser writes into a parsererror element.
ParserErrorText == <<"!">>

\* What DOMParser returns for a string that is not a well-formed document:
\* it does not throw.  The error report is the root element in one engine
\* and the first child of a root element in the other.
Engines == {"gecko", "blink"}

ParserErrorDocument(engine) ==
  IF engine = "gecko" THEN Doc(<<El("parsererror", <<Txt(ParserErrorText)>>)>>)
  ELSE Doc(<<El("html", <<El("parsererror", <<Txt(ParserErrorText)>>)>>)>>)

\* A well-formed document: tags match, one root element, no character data
\* outside it.
IsWellFormedXml(xmlString) ==
  LET r == ParseContent(xmlString, 1)
  IN /\ r.ok
     /\ r.next > Len(xmlString)
     /\ Len(SelectSeq(r.kids, LAMBDA k : k.nodeType = "element")) = 1
     /\ Len(SelectSeq(r.kids, LAMBDA k : k.nodeType = "text")) = 0

\* parseXML(xmlString): new DOMParser().parseFromString(xmlString, "text/xml"),
\* as the tree of the Document it returns.
parseXML(xmlString, engine) ==
  IF IsWellFormedXml(xmlString) THEN Doc(ParseContent(xmlString, 1).kids)
  ELSE ParserErrorDocument(engine)

(***************************************************************************)
(* App handlers that edit a clone of the live document in place.           *)
(***************************************************************************)
\* handleAcceptAll(scope), with the App's pages (= getPages(xmlDoc)) and
\* activePageIndex; pages[activePageIndex] is undefined out of range.
handleAcceptAll(h, doc, scope, activePageIndex) ==
  LET copy == cloneNode(h, doc)
      m0 == Machine(copy.heap)
      docClone == copy.node
      pages == getPages(h, doc)
  IN IF scope = "page" /\ activePageIndex >= 0 /\ activePageIndex < Len(pages)
       THEN LET nodeInClone == getNodeByPath(m0.heap, docClone,
                                             pages[activePageIndex + 1].path)
            IN IF nodeInClone # NULL
                 THEN Result(acceptAllSuggestionsInNode(m0, nodeInClone), docClone)
                 ELSE Result(m0, docClone)
     ELSE Result(acceptAllSuggestionsInNode(m0, DocumentElement(m0.heap, docClone)),
                 docClone)

RECURSIVE ImportEach(_, _, _, _)
\* newNodes.forEach(n => fragment.appendChild(docClone.importNode(n, true)))
ImportEach(m, newNodes, i, fragment) ==
  IF m.threw \/ i > Len(newNodes) THEN m
  ELSE ImportEach(AppendChild(ImportNode(m, newNodes[i]), fragment, NewId(m.heap)),
                  newNodes, i + 1, fragment)

\* The fragment splice of handleAutoTagSelection: the selected range of the
\* node at `path` is replaced by the nodes the annotation service returned
\* (annotatedFragment: the child list of the parsed <root> wrapper).
spliceFragment(h, doc, path, startOffset, endOffset, annotatedFragment) ==
  LET copy == cloneNode(h, doc)
      m0 == Machine(copy.heap)
      docClone == copy.node
      targetNode == getNodeByPath(m0.heap, docClone, path)
  IN IF targetNode = NULL \/ m0.heap[targetNode].parentNode = NULL THEN Result(m0, doc)
     ELSE LET parent == m0.heap[targetNode].parentNode
              originalText == TextContent(m0.heap, targetNode)
              before == Substring(originalText, 0, startOffset)
              after == Substring(originalText, endOffset, Len(originalText))
              fragmentWrapper == NewId(m0.heap)
              m1 == [m0 EXCEPT !.heap = Alloc(@, Doc(<<El("root", annotatedFragment)>>), NULL)]
              newNodes == m1.heap[DocumentElement(m1.heap, fragmentWrapper)].childNodes
              fragment == NewId(m1.heap)
              m2 == CreateDocumentFragment(m1)
              m3 == IF before # <<>>
                      THEN AppendChild(CreateTextNode(m2, before), fragment, NewId(m2.heap))
                      ELSE m2
              m4 == ImportEach(m3, newNodes, 1, fragment)
              m5 == IF after # <<>>
                      THEN AppendChild(CreateTextNode(m4, after), fragment, NewId(m4.heap))
                      ELSE m4
              m6 == IF IsText(m5.heap, targetNode)
                      THEN ReplaceChild(m5, parent, fragment, targetNode)
                      ELSE AppendChild(SetTextContent(m5, targetNode, <<>>),
                                       targetNode, fragment)
          IN Result(m6, docClone)

(***************************************************************************)
(* Input documents.                                                        *)
(***************************************************************************)
abc == <<"a", "b", "c">>

de == <<"d", "e">>

f == <<"f">>

\* Inline content of a paragraph, as a parsed file or a review response
\* holds it: text, an entity, and suggestions of every mode.
Inline ==
  { Txt(abc),
    Cmt(f),
    El("persName", <<Txt(de)>>),
    Sug("deletion", NoAttr, <<El("persName", <<Txt(de)>>)>>),
    Sug("addition", "placeName", <<Txt(de)>>),
    Sug("correction", "name", <<Txt(f), El("persName", <<Txt(de)>>)>>),
    Sug("deletion", NoAttr, <<>>) }

\* The parser never yields two adjacent Text nodes.
NoAdjacentText(kids) ==
  \A i \in 1..(Len(kids) - 1) : ~(kids[i].nodeType = "text" /\ kids[i + 1].nodeType = "text")

ParagraphDocs ==
  { Doc(<<El("p", kids)>>) :
      kids \in { k \in {<<>>} \cup {<<x>> : x \in Inline}
                       \cup {<<x, y>> : x \in Inline, y \in Inline} : NoAdjacentText(k) } }

\* Documents with a root element of another kind, content before the
\* root, nested entities and suggestions, defaulted attributes, and pages.
SpecialDocs ==
  { Doc(<<El("persName", <<Txt(de)>>)>>),
    Doc(<<El("TEI", <<>>)>>),
    Doc(<<Sug("deletion", NoAttr, <<Txt(de)>>)>>),
    Doc(<<Sug("addition", "persName", <<Txt(de)>>)>>),
    Doc(<<Cmt(f), El("p", <<Txt(abc)>>)>>),
    Doc(<<El("p", <<Sug("deletion", NoAttr,
                        <<El("persName", <<El("name", <<Txt(f)>>)>>)>>)>>)>>),
    Doc(<<El("p", <<Sug("deletion", NoAttr,
                        <<El("hi", <<El("placeName", <<Txt(de)>>)>>)>>)>>)>>),
    Doc(<<El("p", <<Sug("deletion", NoAttr, <<El("PersName", <<Txt(de)>>)>>)>>)>>),
    Doc(<<El("p", <<Sug("addition", "persName",
                        <<Sug("deletion", NoAttr, <<El("persName", <<Txt(de)>>)>>),
                          Txt(f)>>)>>)>>),
    Doc(<<El("p", <<Sug("deletion", NoAttr,
                        <<Sug("addition", "name", <<Txt(de)>>)>>)>>)>>),
    Doc(<<El("p", <<Sug("addition", "persName", <<Txt(f)>>),
                    Sug("deletion", NoAttr, <<El("name", <<Txt(de)>>)>>),
                    Sug("correction", "placeName", <<Txt(abc)>>)>>)>>),
    Doc(<<El("p", <<Txt(abc), Sug("addition", "name", <<Txt(de)>>),
                    Sug("deletion", NoAttr, <<Txt(f)>>)>>)>>),
    Doc(<<El("p", <<Sug(NoAttr, NoAttr, <<Txt(de)>>), Txt(abc)>>)>>),
    Doc(<<El("TEI",
             <<Div("p1", NoAttr, <<Sug("addition", "placeName", <<Txt(de)>>),
                                   Sug("deletion", NoAttr, <<El("persName", <<Txt(f)>>)>>)>>),
               Div(NoAttr, NoAttr, <<Txt(abc),
                                     Sug("deletion", NoAttr, <<El("name", <<Txt(f)>>)>>)>>)>>)>>) }

\* Documents with page containers: as the root element, inside the header,
\* inside one another, behind a comment, with and without identifiers.
PageDocs ==
  { Doc(<<Div("p1", NoAttr, <<El("p", <<Txt(abc)>>)>>)>>),
    Doc(<<El("TEI",
             <<El("teiHeader", <<Div(NoAttr, "h1", <<Txt(f)>>)>>),
               El("body",
                  <<Div("p1", NoAttr, <<Div("p2", NoAttr, <<Txt(de)>>), El("p", <<>>)>>),
                    Div(NoAttr, NoAttr, <<Txt(abc)>>)>>)>>)>>),
    Doc(<<Cmt(f),
          El("TEI",
             <<Div(NoAttr, NoAttr, <<El("p", <<Div(NoAttr, "p3", <<>>)>>)>>),
               Cmt(de),
               Div(NoAttr, "p1", <<Sug("deletion", NoAttr, <<Txt(de)>>)>>),
               Div("p1", NoAttr, <<>>)>>)>>),
    Doc(<<El("TEI",
             <<Div("p1", NoAttr, <<El("fw", <<El("name", <<Txt(de)>>)>>),
                                   El("p", <<Txt(abc)>>)>>)>>)>>) }

ParsedDocs == ParagraphDocs \cup SpecialDocs \cup PageDocs

\* Live documents the in-place handlers leave behind, which do not
\* normalize: an annotated fragment spliced into a text node, and accept-all
\* on a page or on the whole document.
SplicedDocs ==
  LET annotated == <<Txt(<<"b">>), El("placeName", <<Txt(<<"c">>)>>)>>
      inputs == { [doc |-> Doc(<<El("p", <<Sug("addition", "persName", <<Txt(abc)>>)>>)>>),
                   path |-> <<"0", ":", "0", ":", "0">>],
                  [doc |-> Doc(<<El("p", <<Txt(abc), Sug("correction", "name", <<Txt(de)>>)>>)>>),
                   path |-> <<"0", ":", "0">>] }
  IN { LET r == spliceFragment(Alloc(<<>>, i.doc, NULL), 1, i.path, 1, 3, annotated)
       IN ToTree(r.heap, r.ret) : i \in inputs }

AcceptedDocs ==
  { LET r == handleAcceptAll(Alloc(<<>>, i.doc, NULL), 1, i.scope, 0)
    IN ToTree(r.heap, r.ret) :
      i \in [doc : SpecialDocs, scope : {"page", "document"}] }

InputDocs == ParsedDocs \cup SplicedDocs \cup AcceptedDocs

(***************************************************************************)
(* Arguments.                                                              *)
(***************************************************************************)
RECURSIVE PathIndices(_, _)
\* The child indices leading from the root of n's tree down to n.
PathIndices(h, n) ==
  IF h[n].parentNode = NULL THEN <<>>
  ELSE Append(PathIndices(h, h[n].parentNode),
              IndexOf(h[h[n].parentNode].childNodes, n) - 1)

RECURSIVE FormatPath(_)
\* The path string the renderer and getPages build for an index list.
FormatPath(indices) ==
  IF indices = <<>> THEN <<>>
  ELSE ChildPath(FormatPath(SubSeq(indices, 1, Len(indices) - 1)), indices[Len(indices)])

NodesOf(h, d) == {d} \cup {Descendants(h, d)[i] : i \in 1..Len(Descendants(h, d))}

\* The paths of the nodes of document d, the first out-of-range path below
\* each node, and a string that is no index list.
PathArgs(h, d) ==
  {FormatPath(PathIndices(h, n)) : n \in NodesOf(h, d)}
    \cup {FormatPath(Append(PathIndices(h, n), Len(h[n].childNodes))) : n \in NodesOf(h, d)}
    \cup {<<"x">>}

EntityTypes == {"persName", "placeName", "name"}

Modes == {"addition", "correction", "deletion"}

\* The {mode, type} payloads handed to acceptSuggestion.
Payloads ==
  { [mode |-> "deletion", type |-> "name"],
    [mode |-> "addition", type |-> "persName"],
    [mode |-> "correction", type |-> "suggestion"],
    [mode |-> "addition", type |-> "pers name"] }

NewTexts == {<<>>, <<"x", "<">>}

\* Root elements handed to replaceNode: a page of the original document or
\* a reviewed page.
ReplacementDocs ==
  { Doc(<<Div("p1", NoAttr, <<El("p", <<Txt(de)>>)>>)>>),
    Doc(<<El("p", <<Txt(f), Sug("addition", "name", <<Txt(de)>>)>>)>>) }

(***************************************************************************)
(* The state machine: one utility call on the live document.  heap holds  *)
(* every node, xmlDoc is the Document the caller passes and keeps, call   *)
(* records the call and what it returned.                                 *)
(***************************************************************************)
\* selectionState, and the values an unfinished service call took from
\* the render in which it was started.
NoSelection == [text |-> <<>>, path |-> <<>>, startOffset |-> 0, endOffset |-> 0]

NoPending ==
  [kind |-> "none", scope |-> "", doc |-> Doc(<<>>), history |-> <<>>,
   historyIndex |-> -1, activePageIndex |-> 0, selectionState |-> NoSelection]

\* What the last handler saw and did.
NoEvent ==
  [op |-> "none", doc |-> Doc(<<>>), history |-> <<>>, historyIndex |-> -1,
   errorMsg |-> NoAttr, updated |-> FALSE, newDoc |-> Doc(<<>>), threw |-> FALSE,
   pending |-> NoPending, response |-> [kind |-> "none", text |-> <<>>],
   outcome |-> ""]

\* The App state before a file is loaded.
NoApp ==
  [history |-> <<>>, historyIndex |-> -1, originalDoc |-> <<>>, errorMsg |-> NoAttr,
   isProcessing |-> FALSE, activePageIndex |-> 0, reviewComplete |-> FALSE,
   engine |-> "gecko", pending |-> NoPending, steps |-> 0, trace |-> <<>>,
   last |-> NoEvent]

NoCall ==
  [op |-> "none", path |-> <<>>, startOffset |-> 0, endOffset |-> 0,
   tagName |-> "", newText |-> <<>>, mode |-> "", type |-> "", newNode |-> NULL,
   scope |-> "", activePageIndex |-> 0, path2 |-> <<>>, mid |-> Doc(<<>>),
   before |-> Doc(<<>>), ret |-> NULL,
   node |-> NULL, threw |-> FALSE, pages |-> <<>>, drawn |-> <<>>]

\* What a rejected promise carries: the fields retryOperation reads.  An
\* absent number is 0 and an absent string is empty, both falsy in `||`.
NoError ==
  [status |-> 0, code |-> 0, message |-> <<>>,
   error |-> [code |-> 0, message |-> <<>>, status |-> <<>>],
   response |-> [status |-> 0]]

\* One call of retryOperation: where it stands, its parameters and locals,
\* the number of times it has called the operation and what it has
\* returned or thrown.
NoRetry ==
  [pc |-> "idle", retries |-> 0, i |-> 0, delay |-> 0, lastError |-> Undefined,
   calls |-> 0, result |-> Undefined, value |-> Undefined, rejected |-> <<>>]

Init ==
  \E d \in InputDocs :
    /\ heap = Alloc(<<>>, d, NULL)
    /\ xmlDoc = 1
    /\ call = NoCall
    /\ app = NoApp
    /\ retry = NoRetry

Returned(c, r) ==
  /\ heap' = r.heap
  /\ xmlDoc' = xmlDoc
  /\ app' = app
  /\ retry' = retry
  /\ call' = [c EXCEPT !.before = ToTree(heap, xmlDoc), !.ret = r.ret, !.threw = r.threw]

Resolve ==
  /\ call.op = "none"
  /\ \E path \in PathArgs(heap, xmlDoc) :
    /\ heap' = heap
    /\ xmlDoc' = xmlDoc
    /\ app' = app
    /\ retry' = retry
    /\ call' = [NoCall EXCEPT !.op = "getNodeByPath", !.path = path,
                              !.before = ToTree(heap, xmlDoc),
                              !.node = getNodeByPath(heap, xmlDoc, path)]

GetPages ==
  /\ call.op = "none"
  /\ heap' = heap
  /\ xmlDoc' = xmlDoc
  /\ app' = app
  /\ retry' = retry
  /\ call' = [NoCall EXCEPT !.op = "getPages", !.before = ToTree(heap, xmlDoc),
                            !.pages = getPages(heap, xmlDoc)]

\* One render of the live document, on each of its pages.
RenderDocument ==
  /\ call.op = "none"
  /\ \E activePageIndex \in 0..Max(0, Len(getPages(heap, xmlDoc)) - 1) :
    /\ heap' = heap
    /\ xmlDoc' = xmlDoc
    /\ app' = app
    /\ retry' = retry
    /\ call' = [NoCall EXCEPT !.op = "render", !.before = ToTree(heap, xmlDoc),
                              !.activePageIndex = activePageIndex,
                              !.pages = getPages(heap, xmlDoc),
                              !.drawn = RenderView(heap, xmlDoc, activePageIndex)]

WrapSelectionInTag ==
  /\ call.op = "none"
  /\ \E path \in PathArgs(heap, xmlDoc), s \in 0..MaxOffset, e \in 0..MaxOffset,
     tag \in EntityTypes :
    /\ s <= e
    /\ Returned([NoCall EXCEPT !.op = "wrapSelectionInTag", !.path = path,
                               !.startOffset = s, !.endOffset = e, !.tagName = tag],
                wrapSelectionInTag(heap, xmlDoc, path, s, e, tag))

UpdateNodeText ==
  /\ call.op = "none"
  /\ \E path \in PathArgs(heap, xmlDoc), text \in NewTexts :
    /\ Returned([NoCall EXCEPT !.op = "updateNodeText", !.path = path, !.newText = text],
                updateNodeText(heap, xmlDoc, path, text))

UnwrapTag ==
  /\ call.op = "none"
  /\ \E path \in PathArgs(heap, xmlDoc) :
    /\ Returned([NoCall EXCEPT !.op = "unwrapTag", !.path = path],
                unwrapTag(heap, xmlDoc, path))

ReplaceNode ==
  /\ call.op = "none"
  /\ \E path \in PathArgs(heap, xmlDoc), src \in ReplacementDocs :
    /\ LET h1 == Alloc(heap, src, NULL)
           newNode == DocumentElement(h1, NewId(heap))
       IN Returned([NoCall EXCEPT !.op = "replaceNode", !.path = path, !.newNode = newNode,
                                  !.mid = src],
                   replaceNode(h1, xmlDoc, path, newNode))

AcceptSuggestion ==
  /\ call.op = "none"
  /\ \E path \in PathArgs(heap, xmlDoc), payload \in Payloads :
    /\ Returned([NoCall EXCEPT !.op = "acceptSuggestion", !.path = path,
                               !.mode = payload.mode, !.type = payload.type],
                acceptSuggestion(heap, xmlDoc, path, payload.mode, payload.type))

DeclineSuggestion ==
  /\ call.op = "none"
  /\ \E path \in PathArgs(heap, xmlDoc) :
    /\ Returned([NoCall EXCEPT !.op = "declineSuggestion", !.path = path],
                declineSuggestion(heap, xmlDoc, path))

AcceptAll ==
  /\ call.op = "none"
  /\ \E scope \in {"page", "document"},
     activePageIndex \in 0..Max(0, Len(getPages(heap, xmlDoc)) - 1) :
    /\ Returned([NoCall EXCEPT !.op = "acceptAll", !.scope = scope,
                               !.activePageIndex = activePageIndex],
                handleAcceptAll(heap, xmlDoc, scope, activePageIndex))

\* wrapSelectionInTag on a Text node, then unwrapTag on the returned
\* document at the path of the element the wrap created: the position of
\* the text node, moved one to the right when a "before" text precedes it.
WrapThenUnwrap ==
  /\ call.op = "none"
  /\ \E path \in PathArgs(heap, xmlDoc), s \in 0..MaxOffset, e \in 0..MaxOffset,
        tag \in EntityTypes :
       LET target == getNodeByPath(heap, xmlDoc, path)
           wrapped == wrapSelectionInTag(heap, xmlDoc, path, s, e, tag)
       IN /\ s <= e
          /\ target # NULL /\ IsText(heap, target)
          /\ ~wrapped.threw
          /\ LET indices == PathIndices(heap, target)
                 shift == IF Substring(heap[target].data, 0, s) # <<>> THEN 1 ELSE 0
                 path2 == ChildPath(FormatPath(SubSeq(indices, 1, Len(indices) - 1)),
                                    indices[Len(indices)] + shift)
             IN Returned([NoCall EXCEPT !.op = "wrapThenUnwrap", !.path = path,
                                        !.startOffset = s, !.endOffset = e,
                                        !.tagName = tag, !.path2 = path2,
                                        !.mid = ToTree(wrapped.heap, wrapped.ret)],
                         unwrapTag(wrapped.heap, wrapped.ret, path2))

Next ==
  \/ Resolve
  \/ GetPages
  \/ RenderDocument
  \/ WrapSelectionInTag
  \/ UpdateNodeText
  \/ UnwrapTag
  \/ ReplaceNode
  \/ AcceptSuggestion
  \/ DeclineSuggestion
  \/ AcceptAll
  \/ WrapThenUnwrap

Spec == Init /\ [][Next]_vars

(***************************************************************************)
(* The App component: the live document, the undo history and the calls   *)
(* to the annotation and review services.  The live Document is node       *)
(* xmlDoc of heap; a handler that updates it installs a new Document.  A   *)
(* handler works on the values of the render in which it was created, and  *)
(* the part of an async handler after its await still works on them.       *)
(***************************************************************************)
\* The tree of the live Document.
Live == ToTree(heap, xmlDoc)

\* A Document value on a heap of its own: the Document is node 1.
HeapOf(t) == Alloc(<<>>, t, NULL)

\* The state a handler closes over: xmlDoc, history, historyIndex, pages
\* (the effect keeps pages = getPages(xmlDoc)) and activePageIndex.
Render ==
  [doc |-> Live, history |-> app.history, historyIndex |-> app.historyIndex,
   activePageIndex |-> app.activePageIndex]

\* A push that leaves the cursor where it was.
addToHistoryKeepingCursor(a, c, xmlString) ==
  [a EXCEPT !.history = Append(SubSeq(c.history, 1, c.historyIndex + 1), xmlString)]

\* history.slice(0, historyIndex + 1), push, setHistory, setHistoryIndex.
addToHistory(a, c, xmlString) ==
  LET newHistory == Append(SubSeq(c.history, 1, Min(c.historyIndex + 1, Len(c.history))),
                           xmlString)
  IN [a EXCEPT !.history = newHistory, !.historyIndex = Len(newHistory) - 1]

\* updateXmlDoc(newDoc), without setXmlDoc: the state setters other than
\* that of the live document.
updateXmlDoc(a, c, newDoc) ==
  [addToHistory(a, c, SerializeNode(newDoc)) EXCEPT !.reviewComplete = FALSE]

\* The effect that runs when xmlDoc changes: pages are recomputed and
\* activePageIndex is pulled back into range.
useEffect(a, doc) ==
  LET detectedPages == getPages(HeapOf(doc), 1)
  IN IF a.activePageIndex >= Len(detectedPages) /\ Len(detectedPages) > 0
       THEN [a EXCEPT !.activePageIndex = Max(0, Len(detectedPages) - 1)]
     ELSE a

\* The record of a handler that starts now.
Event(op) ==
  [NoEvent EXCEPT !.op = op, !.doc = Live, !.history = app.history,
                  !.historyIndex = app.historyIndex, !.errorMsg = app.errorMsg]

\* A handler has run: a is the App state its setters leave, doc the live
\* document they leave.  A behaviour holds at most MaxSteps handlers.
Handled(a, doc, ev) ==
  /\ heap' = HeapOf(doc)
  /\ xmlDoc' = 1
  /\ call' = call
  /\ retry' = retry
  /\ app' = [useEffect(a, doc) EXCEPT !.steps = app.steps + 1,
                                      !.trace = IF ev.outcome = "load" THEN <<>>
                                                ELSE Append(app.trace, ev.outcome),
                                      !.last = ev]

\* A handler that calls a tree mutator on the live document and hands the
\* result to updateXmlDoc.  An exception of the mutator leaves the handler
\* before any setter has run.
Mutated(op, r) ==
  IF r.threw
    THEN Handled(app, Live, [Event(op) EXCEPT !.threw = TRUE, !.outcome = "threw"])
  ELSE IF r.ret = NULL
    THEN Handled(app, Live, [Event(op) EXCEPT !.outcome = "none"])
  ELSE LET newDoc == ToTree(r.heap, r.ret)
       IN Handled(updateXmlDoc(app, Render, newDoc), newDoc,
                  [Event(op) EXCEPT !.updated = TRUE, !.newDoc = newDoc,
                                    !.outcome = "update"])

\* The documents of the files a user loads.
AppDocs ==
  { Doc(<<El("TEI", <<Div("p1", NoAttr, <<Txt(abc)>>),
                      Div("p2", NoAttr, <<Sug("addition", "persName", <<Txt(de)>>)>>)>>)>>),
    Doc(<<El("p", <<Txt(abc), El("persName", <<Txt(de)>>), El("hi", <<>>)>>)>>),
    Doc(<<El("TEI", <<Div("p1", NoAttr, <<Txt(abc)>>), Div("p1", NoAttr, <<Txt(de)>>)>>)>>),
    Doc(<<El("TEI", <<Div(NoAttr, NoAttr, <<Txt(abc)>>), Div(NoAttr, NoAttr, <<Txt(de)>>)>>)>>) }

RECURSIVE WithEndTags(_)
\* A file is text as its author wrote it: here with a start tag and an end
\* tag where the serializer writes an empty-element tag.
WithEndTags(xmlString) ==
  IF xmlString = <<>> THEN <<>>
  ELSE (IF xmlString[1].kind = "empty"
          THEN <<Unit("start", xmlString[1].name, xmlString[1].attrs, <<>>),
                 Unit("end", xmlString[1].name, NoAttrs, <<>>)>>
        ELSE <<xmlString[1]>>)
         \o WithEndTags(Tail(xmlString))

AppFiles == {WithEndTags(SerializeNode(d)) : d \in AppDocs}

\* handleFileUpload (reader.onload) and loadSample.
handleFileUpload(a, content) ==
  [a EXCEPT !.originalDoc = content, !.history = <<content>>, !.historyIndex = 0,
            !.errorMsg = NoAttr, !.reviewComplete = FALSE, !.activePageIndex = 0]

AppInit ==
  \E content \in AppFiles, engine \in Engines :
    /\ heap = HeapOf(parseXML(content, engine))
    /\ xmlDoc = 1
    /\ call = NoCall
    /\ app = [handleFileUpload(NoApp, content) EXCEPT !.engine = engine]
    /\ retry = NoRetry

LoadFile ==
  /\ app.steps < MaxSteps
  /\ \E content \in AppFiles :
    Handled(handleFileUpload(app, content),
            parseXML(content, app.engine),
            [Event("handleFileUpload") EXCEPT !.outcome = "load"])

\* What is on screen: the nodes drawn for the live document, each with the
\* path the renderer gave it.
Rendered ==
  LET drawn == RenderView(heap, xmlDoc, app.activePageIndex)
  IN {drawn[i] : i \in 1..Len(drawn)}

\* The selections handleSelection records: the middle of a drawn text of
\* two characters or more, under the path of its span; and a selection
\* that runs across the children of a block, under the path of the block.
Selections ==
  { [text |-> Substring(heap[d.node].data, 1, 2), path |-> d.path,
     startOffset |-> 1, endOffset |-> 2] :
      d \in {k \in Rendered : k.control = "text" /\ k.path # <<>>
                                 /\ Len(heap[k.node].data) >= 2} }
    \cup
  { [text |-> TextContent(heap, d.node), path |-> d.path,
     startOffset |-> 0, endOffset |-> 1] :
      d \in {k \in Rendered : k.control = "block" /\ k.path # <<>>
                                 /\ Len(heap[k.node].childNodes) >= 2} }

AppTags == {"persName"}

\* handleApplyTag(type), on the selection made just before.
ApplyTag ==
  /\ app.steps < MaxSteps
  /\ \E selectionState \in Selections, type \in AppTags :
    Mutated("handleApplyTag",
            wrapSelectionInTag(heap, xmlDoc, selectionState.path, selectionState.startOffset,
                               selectionState.endOffset, type))

\* The calls of onAction the drawn controls make: the remove button of an
\* entity, the accept and decline buttons of a suggestion, the blur of an
\* edited text.
ActionArgs ==
  { [action |-> "unwrap", path |-> d.path, mode |-> NoAttr, type |-> NoAttr] :
      d \in {k \in Rendered : k.control = "entity"} }
    \cup
  { [action |-> act, path |-> d.path, mode |-> OrElse(heap[d.node].attrs.mode, "correction"),
     type |-> OrElse(heap[d.node].attrs.type, "name")] :
      d \in {k \in Rendered : k.control = "suggestion"},
      act \in {"acceptSuggestion", "declineSuggestion"} }
    \cup
  { [action |-> "updateText", path |-> d.path, mode |-> NoAttr, type |-> NoAttr] :
      d \in {k \in Rendered : k.control = "text"} }

EditedText == <<"x", "<">>

\* handleAction(action, path, payload)
handleAction(h, doc, arg) ==
  CASE arg.action = "unwrap" -> unwrapTag(h, doc, arg.path)
    [] arg.action = "acceptSuggestion" -> acceptSuggestion(h, doc, arg.path, arg.mode, arg.type)
    [] arg.action = "declineSuggestion" -> declineSuggestion(h, doc, arg.path)
    [] OTHER -> updateNodeText(h, doc, arg.path, EditedText)

Action ==
  /\ app.steps < MaxSteps
  /\ \E arg \in ActionArgs :
    Mutated("handleAction", handleAction(heap, xmlDoc, arg))

AcceptAllInApp ==
  /\ app.steps < MaxSteps
  /\ \E scope \in {"page", "document"} :
    Mutated("handleAcceptAll", handleAcceptAll(heap, xmlDoc, scope, app.activePageIndex))

\* handleUndo
handleUndo(a) ==
  IF a.historyIndex > 0 THEN [a EXCEPT !.historyIndex = a.historyIndex - 1] ELSE a

Undo ==
  /\ app.steps < MaxSteps
  /\ IF app.historyIndex > 0
       THEN Handled(handleUndo(app), parseXML(app.history[app.historyIndex], app.engine),
                    [Event("handleUndo") EXCEPT !.outcome = "undo"])
     ELSE Handled(app, Live, [Event("handleUndo") EXCEPT !.outcome = "noUndo"])

\* originalPages.find(p => p.id === id): the pages with that id, of which
\* find returns the first (undefined when there is none).
FindPage(pages, id) == SelectSeq(pages, LAMBDA p : p.id = id)

\* handleResetPage
ResetPage ==
  /\ app.steps < MaxSteps
  /\ LET pages == getPages(heap, xmlDoc)
     IN IF app.originalDoc = <<>> \/ Len(pages) = 0
          THEN Handled(app, Live, [Event("handleResetPage") EXCEPT !.outcome = "none"])
        ELSE LET originalDom == parseXML(app.originalDoc, app.engine)
                 h1 == Alloc(heap, originalDom, NULL)
                 originalPage == FindPage(getPages(h1, NewId(heap)),
                                          pages[app.activePageIndex + 1].id)
             IN IF originalPage = <<>>
                  THEN Handled(app, Live, [Event("handleResetPage") EXCEPT !.outcome = "none"])
                ELSE Mutated("handleResetPage",
                             replaceNode(h1, xmlDoc, pages[app.activePageIndex + 1].path,
                                         originalPage[1].node))

\* The page buttons: setActivePageIndex.
TurnPage ==
  /\ app.steps < MaxSteps
  /\ \E i \in 0..(Len(getPages(heap, xmlDoc)) - 1) :
    /\ i # app.activePageIndex
    /\ Handled([app EXCEPT !.activePageIndex = i], Live,
               [Event("setActivePageIndex") EXCEPT !.outcome = "none"])

\* What a service call comes back with: a rejection, or a string.
Rejected == [kind |-> "rejected", text |-> <<>>]

Fulfilled(text) == [kind |-> "resolved", text |-> text]

\* A reviewed page as the review service writes it.
ReviewedPage ==
  SerializeNode(Div("p1", NoAttr, <<Sug("addition", "persName", <<Txt(abc)>>)>>))

\* reviewXmlFragment(targetXml, isFull): the text it was given, a reviewed
\* page, or the text cut short.
ReviewResponses(targetXml) ==
  { Rejected, Fulfilled(targetXml), Fulfilled(ReviewedPage),
    Fulfilled(SubSeq(targetXml, 1, Len(targetXml) - 1)) }

\* autoAnnotateText(text): the text as it is, the text in a tag, or the
\* text after a start tag that is never closed.
AnnotateResponses(text) ==
  { Rejected, Fulfilled(PlainText(text)),
    Fulfilled(<<Unit("start", "placeName", NoAttrs, <<>>)>> \o PlainText(text)
               \o <<Unit("end", "placeName", NoAttrs, <<>>)>>),
    Fulfilled(<<Unit("start", "placeName", NoAttrs, <<>>)>> \o PlainText(text)) }

\* An async handler has reached its await.
Awaiting(kind, scope, selectionState) ==
  [app EXCEPT !.isProcessing = TRUE, !.errorMsg = NoAttr,
              !.pending = [kind |-> kind, scope |-> scope, doc |-> Live,
                           history |-> app.history, historyIndex |-> app.historyIndex,
                           activePageIndex |-> app.activePageIndex,
                           selectionState |-> selectionState]]

\* handleReview(scope) up to the await.  pages[activePageIndex] is undefined
\* in a document without pages: reading its node throws, and the handler's
\* catch and finally run at once.
StartReview ==
  /\ app.steps < MaxSteps
  /\ ~app.isProcessing
  /\ \E scope \in {"page", "document"} :
       /\ scope = "document" => ~app.reviewComplete
       /\ IF scope = "page" /\ app.activePageIndex >= Len(getPages(heap, xmlDoc))
            THEN Handled([app EXCEPT !.errorMsg = "TypeError", !.isProcessing = FALSE], Live,
                         [Event("handleReview") EXCEPT !.threw = TRUE, !.outcome = "error"])
          ELSE Handled(Awaiting("review", scope, NoSelection), Live,
                       [Event("handleReview") EXCEPT !.outcome = "await"])

\* reviewedDom.querySelector('parsererror')
HasParserError(doc) == QuerySelectorAll(HeapOf(doc), 1, "parsererror") # <<>>

\* The XML text handleReview sent: the closure's document or active page.
TargetXml(c) ==
  IF c.scope = "document" THEN SerializeNode(c.doc)
  ELSE LET h == HeapOf(c.doc)
       IN serializeXML(h, getPages(h, 1)[c.activePageIndex + 1].node)

\* handleReview(scope) from the await on.
FinishReview ==
  /\ app.steps < MaxSteps
  /\ app.pending.kind = "review"
  /\ LET c == app.pending
         ev == [Event("handleReview") EXCEPT !.pending = c]
         done == [app EXCEPT !.isProcessing = FALSE, !.pending = NoPending]
     IN \E response \in ReviewResponses(TargetXml(c)) :
          IF response.kind = "rejected"
            THEN Handled([done EXCEPT !.errorMsg = "Review failed."], Live,
                         [ev EXCEPT !.response = response, !.outcome = "error"])
          ELSE LET reviewedDom == parseXML(response.text, app.engine)
                   h0 == HeapOf(c.doc)
                   h1 == Alloc(h0, reviewedDom, NULL)
                   r == replaceNode(h1, 1, getPages(h0, 1)[c.activePageIndex + 1].path,
                                    DocumentElement(h1, NewId(h0)))
                   newDoc == IF c.scope = "document" THEN reviewedDom
                             ELSE ToTree(r.heap, r.ret)
               IN IF HasParserError(reviewedDom) \/ (c.scope = "page" /\ r.threw)
                    THEN Handled([done EXCEPT !.errorMsg = "Parsing Error"], Live,
                                 [ev EXCEPT !.response = response, !.outcome = "error",
                                            !.threw = TRUE])
                  ELSE Handled([updateXmlDoc(done, c, newDoc) EXCEPT
                                  !.reviewComplete = (c.scope = "document")],
                               newDoc,
                               [ev EXCEPT !.response = response, !.outcome = "update",
                                          !.updated = TRUE, !.newDoc = newDoc])

\* handleAutoTagSelection up to the await.
StartAutoTag ==
  /\ app.steps < MaxSteps
  /\ ~app.isProcessing
  /\ \E selectionState \in Selections :
       Handled(Awaiting("autoTag", "", selectionState), Live,
               [Event("handleAutoTagSelection") EXCEPT !.outcome = "await"])

\* parseXML(`<root>${annotatedFragment}</root>`).documentElement.childNodes
FragmentNodes(annotatedFragment, engine) ==
  LET fragmentWrapper ==
        parseXML(<<Unit("start", "root", NoAttrs, <<>>)>> \o annotatedFragment
                   \o <<Unit("end", "root", NoAttrs, <<>>)>>, engine)
  IN SelectSeq(fragmentWrapper.childNodes,
               LAMBDA k : k.nodeType = "element")[1].childNodes

\* handleAutoTagSelection from the await on.
FinishAutoTag ==
  /\ app.steps < MaxSteps
  /\ app.pending.kind = "autoTag"
  /\ LET c == app.pending
         ev == [Event("handleAutoTagSelection") EXCEPT !.pending = c]
         done == [app EXCEPT !.isProcessing = FALSE, !.pending = NoPending]
     IN \E response \in AnnotateResponses(c.selectionState.text) :
          IF response.kind = "rejected"
            THEN Handled([done EXCEPT !.errorMsg = "Failed to auto-annotate."], Live,
                         [ev EXCEPT !.response = response, !.outcome = "error"])
          ELSE IF response.text = PlainText(c.selectionState.text)
            THEN Handled(done, Live, [ev EXCEPT !.response = response, !.outcome = "none"])
          ELSE LET r == spliceFragment(HeapOf(c.doc), 1, c.selectionState.path,
                                       c.selectionState.startOffset,
                                       c.selectionState.endOffset,
                                       FragmentNodes(response.text, app.engine))
                   newDoc == ToTree(r.heap, r.ret)
               IN IF r.threw
                    THEN Handled([done EXCEPT !.errorMsg = "Failed to auto-annotate."], Live,
                                 [ev EXCEPT !.response = response, !.outcome = "error",
                                            !.threw = TRUE])
                  ELSE IF r.ret = 1
                    THEN Handled(done, Live,
                                 [ev EXCEPT !.response = response, !.outcome = "none"])
                  ELSE Handled(updateXmlDoc(done, c, newDoc), newDoc,
                               [ev EXCEPT !.response = response, !.outcome = "update",
                                          !.updated = TRUE, !.newDoc = newDoc])

AppNext ==
  \/ LoadFile
  \/ ApplyTag
  \/ Action
  \/ AcceptAllInApp
  \/ Undo
  \/ ResetPage
  \/ TurnPage
  \/ StartReview
  \/ FinishReview
  \/ StartAutoTag
  \/ FinishAutoTag

AppSpec == AppInit /\ [][AppNext]_vars

(***************************************************************************)
(* Vocabulary of the properties: trees as values.                          *)
(***************************************************************************)
RECURSIVE TreeAt(_, _)
\* The subtree of t reached by an index list.
TreeAt(t, indices) ==
  IF indices = <<>> THEN t
  ELSE TreeAt(t.childNodes[indices[1] + 1], Tail(indices))

RECURSIVE WithSubtreeAt(_, _, _)
\* t with the subtree at an index list replaced by sub.
WithSubtreeAt(t, indices, sub) ==
  IF indices = <<>> THEN sub
  ELSE [t EXCEPT !.childNodes[indices[1] + 1] = WithSubtreeAt(@, Tail(indices), sub)]

\* t with the child list of the node at an index list replaced by kids.
WithChildrenAt(t, indices, kids) ==
  WithSubtreeAt(t, indices, [TreeAt(t, indices) EXCEPT !.childNodes = kids])

RECURSIVE NormalizeTree(_)
RECURSIVE NormalizeKids(_)
\* Text-run normal form: no empty Text node, no two adjacent Text nodes.
NormalizeTree(t) == [t EXCEPT !.childNodes = NormalizeKids(@)]

NormalizeKids(kids) ==
  IF kids = <<>> THEN <<>>
  ELSE LET k == kids[1]
           rest == NormalizeKids(Tail(kids))
       IN IF k.nodeType # "text" THEN <<NormalizeTree(k)>> \o rest
          ELSE IF rest # <<>> /\ rest[1].nodeType = "text"
            THEN <<Txt(k.data \o rest[1].data)>> \o Tail(rest)
          ELSE IF k.data = <<>> THEN rest
          ELSE <<k>> \o rest

RECURSIVE CountElements(_, _)
RECURSIVE CountElementsIn(_, _)
\* How many elements of t (t included) have a tag name in tags.
CountElements(t, tags) ==
  (IF t.nodeType = "element" /\ t.tagName \in tags THEN 1 ELSE 0)
    + CountElementsIn(t.childNodes, tags)

CountElementsIn(kids, tags) ==
  IF kids = <<>> THEN 0
  ELSE CountElements(kids[1], tags) + CountElementsIn(Tail(kids), tags)

\* The node of document d whose position is written `path`, found from the
\* nodes' own parent links; NULL when no node has that position.
NodeAtPath(h, d, path) ==
  IF \E n \in NodesOf(h, d) : FormatPath(PathIndices(h, n)) = path
    THEN CHOOSE n \in NodesOf(h, d) : FormatPath(PathIndices(h, n)) = path
  ELSE NULL

\* The document as it was before the call, and the node the call's path
\* names in it.
BeforeHeap == Alloc(<<>>, call.before, NULL)

Target == NodeAtPath(BeforeHeap, 1, call.path)

TargetIndices == PathIndices(BeforeHeap, Target)

TargetTree == ToTree(BeforeHeap, Target)

ParentIndices == SubSeq(TargetIndices, 1, Len(TargetIndices) - 1)

ParentTree == TreeAt(call.before, ParentIndices)

\* The position of the target among its parent's children, from 1.
TargetPos == TargetIndices[Len(TargetIndices)] + 1

HasParent == Target # NULL /\ BeforeHeap[Target].parentNode # NULL

TargetIsText == Target # NULL /\ IsText(BeforeHeap, Target)

TargetIsElement == Target # NULL /\ IsElement(BeforeHeap, Target)

TargetIsSuggestion == TargetIsElement /\ BeforeHeap[Target].tagName = "suggestion"

\* The document the call returned.
ResultTree == ToTree(heap, call.ret)

MutatorOps == {"wrapSelectionInTag", "unwrapTag", "replaceNode", "updateNodeText",
               "acceptSuggestion", "declineSuggestion"}

(***************************************************************************)
(* C1.  Whatever the arguments, and whether the call returns or throws,    *)
(* the document the caller passed to wrapSelectionInTag, unwrapTag,        *)
(* replaceNode, updateNodeText, acceptSuggestion or declineSuggestion is   *)
(* the same tree after the call as before it.                              *)
(***************************************************************************)
C1_CallerDocumentUntouched ==
  call.op \in MutatorOps => ToTree(heap, xmlDoc) = call.before

\* A call that returned a new, different document.
C1_Witness ==
  /\ call.op = "unwrapTag"
  /\ call.ret # NULL /\ call.ret # xmlDoc
  /\ ResultTree # call.before
  /\ ToTree(heap, xmlDoc) = call.before

(***************************************************************************)
(* C2.  Fail-soft: when no node has the path, or the node is of the wrong  *)
(* kind for the operation, the call does not throw and returns a document  *)
(* structurally equal to the input.                                        *)
(***************************************************************************)
WrongKind ==
  CASE call.op = "wrapSelectionInTag" -> ~TargetIsText
    [] call.op = "unwrapTag" -> ~TargetIsElement \/ ~HasParent
    [] call.op = "replaceNode" -> ~HasParent
    [] call.op = "updateNodeText" -> ~TargetIsText /\ ~TargetIsElement
    [] call.op = "acceptSuggestion" -> ~TargetIsSuggestion
    [] OTHER -> FALSE

C2_FailSoft ==
  WrongKind => ~call.threw /\ call.ret # NULL /\ ResultTree = call.before

\* updateNodeText on a comment node: a path that resolves, to the wrong kind.
C2_Witness ==
  /\ call.op = "updateNodeText"
  /\ Target # NULL /\ BeforeHeap[Target].nodeType = "comment"
  /\ call.newText # <<>>
  /\ ResultTree = call.before

(***************************************************************************)
(* C3.  getNodeByPath returns the document for the empty path, the node    *)
(* whose chain of child positions from the document is the path's index    *)
(* list, and null when there is no such node.                              *)
(***************************************************************************)
C3_ResolveFollowsIndices ==
  call.op = "getNodeByPath" =>
    /\ call.path = <<>> => call.node = xmlDoc
    /\ call.node = NodeAtPath(heap, xmlDoc, call.path)
    /\ call.node # NULL => FormatPath(PathIndices(heap, call.node)) = call.path

\* A node two levels below the root element is resolved.
C3_Witness ==
  /\ call.op = "getNodeByPath"
  /\ call.node # NULL
  /\ Len(PathIndices(heap, call.node)) = 3
  /\ PathIndices(heap, call.node)[3] = 1

\* An index past the end of a child list resolves to null.
C3_WitnessNull ==
  /\ call.op = "getNodeByPath"
  /\ call.node = NULL
  /\ Len(call.path) = 3

(***************************************************************************)
(* Vocabulary of the properties about one target among its siblings.       *)
(***************************************************************************)
\* The target's siblings before it and after it.
SiblingsBefore == SubSeq(ParentTree.childNodes, 1, TargetPos - 1)

SiblingsAfter == SubSeq(ParentTree.childNodes, TargetPos + 1, Len(ParentTree.childNodes))

\* The document before the call with the target replaced, among its
\* siblings, by a list of trees.
WithTargetReplacedBy(trees) ==
  WithChildrenAt(call.before, ParentIndices, SiblingsBefore \o trees \o SiblingsAfter)

\* The same, with the subtree of the target's parent put in text-run normal
\* form afterwards.
WithTargetReplacedNormalized(trees) ==
  WithSubtreeAt(call.before, ParentIndices,
                NormalizeTree([ParentTree EXCEPT
                                 !.childNodes = SiblingsBefore \o trees \o SiblingsAfter]))

\* A text node holding s, or nothing when s is empty.
TextPiece(s) == IF s = <<>> THEN <<>> ELSE <<Txt(s)>>

EntityTagNames == {"persName", "placeName", "name"}

Suggestions(t) == CountElements(t, {"suggestion"})

\* The node the call's path names in the returned document.
ResultAtPath == NodeAtPath(heap, call.ret, call.path)

ValidSelection ==
  /\ TargetIsText
  /\ call.startOffset <= call.endOffset
  /\ call.endOffset <= Len(TargetTree.data)

SelectedText == SubSeq(TargetTree.data, call.startOffset + 1, call.endOffset)

TextBeforeSelection == SubSeq(TargetTree.data, 1, call.startOffset)

TextAfterSelection == SubSeq(TargetTree.data, call.endOffset + 1, Len(TargetTree.data))

(***************************************************************************)
(* C4.  wrapSelectionInTag on a text node with content t and offsets       *)
(* 0 <= s <= e <= |t| replaces the node, at its position, by an optional   *)
(* text t[0..s) (when non-empty), a new element named tag, and an optional *)
(* text t[e..) (when non-empty).  As stated, the new element always has    *)
(* one text child t[s..e).                                                 *)
(***************************************************************************)
C4_WrapOneTextChild ==
  (call.op = "wrapSelectionInTag" /\ ValidSelection) =>
    /\ ~call.threw
    /\ ResultTree = WithTargetReplacedBy(
                      TextPiece(TextBeforeSelection)
                        \o <<El(call.tagName, <<Txt(SelectedText)>>)>>
                        \o TextPiece(TextAfterSelection))

\* C4, amended: the new element has the single text child t[s..e) when
\* s < e, and no child at all when s = e.
C4_WrapStructure ==
  (call.op = "wrapSelectionInTag" /\ ValidSelection) =>
    /\ ~call.threw
    /\ ResultTree = WithTargetReplacedBy(
                      TextPiece(TextBeforeSelection)
                        \o <<El(call.tagName, TextPiece(SelectedText))>>
                        \o TextPiece(TextAfterSelection))

\* A selection strictly inside the text: before-text, element, after-text.
C4_Witness ==
  /\ call.op = "wrapSelectionInTag" /\ ValidSelection
  /\ 0 < call.startOffset /\ call.startOffset < call.endOffset
  /\ call.endOffset < Len(TargetTree.data)
  /\ Len(TreeAt(ResultTree, ParentIndices).childNodes) = Len(ParentTree.childNodes) + 2

\* An empty selection: the new element has no child.
C4_WitnessEmpty ==
  /\ call.op = "wrapSelectionInTag" /\ ValidSelection
  /\ call.startOffset = call.endOffset
  /\ \E i \in 1..Len(TreeAt(ResultTree, ParentIndices).childNodes) :
        TreeAt(ResultTree, ParentIndices).childNodes[i] = El(call.tagName, <<>>)

(***************************************************************************)
(* C5.  For s < e, unwrapTag at the path of the element that               *)
(* wrapSelectionInTag created gives back the original document up to       *)
(* text-run normalization of the parent: the parent's subtree is the       *)
(* original one in normal form, so an already normal document comes back   *)
(* unchanged, with the text t again at the original path.                  *)
(***************************************************************************)
C5_UnwrapInvertsWrap ==
  (call.op = "wrapThenUnwrap" /\ ValidSelection /\ call.startOffset < call.endOffset) =>
    /\ ~call.threw
    /\ ResultTree = WithSubtreeAt(call.before, ParentIndices, NormalizeTree(ParentTree))
    /\ NormalizeTree(ParentTree) = ParentTree =>
         /\ ResultTree = call.before
         /\ ResultAtPath # NULL /\ ToTree(heap, ResultAtPath) = TargetTree

\* A selection strictly inside the text was wrapped, and the unwrap gave
\* the original document back.
C5_Witness ==
  /\ call.op = "wrapThenUnwrap" /\ ValidSelection
  /\ 0 < call.startOffset /\ call.startOffset < call.endOffset
  /\ call.endOffset < Len(TargetTree.data)
  /\ call.mid # call.before
  /\ ResultTree = call.before

\* The parent had adjacent text runs: the round trip merges them.
C5_WitnessMerged ==
  /\ call.op = "wrapThenUnwrap" /\ ValidSelection
  /\ call.startOffset < call.endOffset
  /\ ~call.threw
  /\ ResultTree # call.before

(***************************************************************************)
(* C6.  unwrapTag on an element E with parent P returns a document in      *)
(* which E is gone, E's children stand in their order where E stood, and   *)
(* P's adjacent text runs are merged.                                      *)
(***************************************************************************)
C6_UnwrapSplices ==
  (call.op = "unwrapTag" /\ TargetIsElement /\ HasParent) =>
    /\ ~call.threw
    /\ ResultTree = WithTargetReplacedNormalized(TargetTree.childNodes)

\* The same for an element below the root element.
C6_UnwrapSplicesBelowRoot ==
  (call.op = "unwrapTag" /\ TargetIsElement /\ Len(TargetIndices) > 1) =>
    /\ ~call.threw
    /\ ResultTree = WithTargetReplacedNormalized(TargetTree.childNodes)

\* An entity between two texts was unwrapped into one text run.
C6_WitnessBelowRoot ==
  /\ call.op = "unwrapTag" /\ TargetIsElement /\ Len(TargetIndices) > 1
  /\ Len(ParentTree.childNodes) = 3
  /\ ~call.threw
  /\ Len(TreeAt(ResultTree, ParentIndices).childNodes) = 1

\* unwrapTag on a root element that has a text child.
C6_RootThrows ==
  /\ call.op = "unwrapTag" /\ TargetIsElement /\ Len(TargetIndices) = 1
  /\ call.threw

(***************************************************************************)
(* C7.  After acceptSuggestion or declineSuggestion on a suggestion        *)
(* element at path p, for every mode and type, the node at p in the        *)
(* returned document, if any, is not a suggestion element.                 *)
(***************************************************************************)
Resolved ==
  /\ call.op \in {"acceptSuggestion", "declineSuggestion"}
  /\ TargetIsSuggestion
  /\ ~call.threw

C7_PathNoLongerSuggestion ==
  Resolved =>
    ~(/\ ResultAtPath # NULL
      /\ IsElement(heap, ResultAtPath)
      /\ heap[ResultAtPath].tagName = "suggestion")

\* C7, amended: the returned document has exactly one suggestion element
\* fewer than the input (the resolved one), except that accepting an
\* addition or correction with type "suggestion" creates one in its place.
C7_OneSuggestionFewer ==
  Resolved =>
    Suggestions(ResultTree)
      = Suggestions(call.before) - 1
          + (IF call.op = "acceptSuggestion" /\ call.mode # "deletion"
                /\ call.type = "suggestion" THEN 1 ELSE 0)

\* A declined suggestion whose place is taken by the suggestion it held.
C7_Witness ==
  /\ Resolved
  /\ call.op = "declineSuggestion"
  /\ ResultAtPath # NULL
  /\ IsElement(heap, ResultAtPath)
  /\ heap[ResultAtPath].tagName = "suggestion"
  /\ Suggestions(ResultTree) = Suggestions(call.before) - 1

(***************************************************************************)
(* C8.  After acceptSuggestion with mode deletion on a suggestion S, the   *)
(* suggestion is gone and no persName, placeName or name element that was  *)
(* a descendant of S remains: the result has as many entity elements fewer *)
(* as S contained.                                                         *)
(***************************************************************************)
C8_DeletionRemovesEntities ==
  (Resolved /\ call.op = "acceptSuggestion" /\ call.mode = "deletion") =>
    /\ Suggestions(ResultTree) = Suggestions(call.before) - 1
    /\ CountElements(ResultTree, EntityTagNames)
         = CountElements(call.before, EntityTagNames)
             - CountElements(TargetTree, EntityTagNames)

\* A deletion was accepted on a suggestion holding an entity inside an
\* entity, and an entity of the suggestion is still in the result.
C8_NestedEntitySurvives ==
  /\ Resolved /\ call.op = "acceptSuggestion" /\ call.mode = "deletion"
  /\ CountElements(TargetTree, EntityTagNames) = 2
  /\ CountElements(ResultTree, EntityTagNames)
       > CountElements(call.before, EntityTagNames)
           - CountElements(TargetTree, EntityTagNames)

(***************************************************************************)
(* C9.  acceptSuggestion with mode addition or correction replaces the      *)
(* suggestion S, at its position, by one element named type whose children *)
(* are exactly S's children in order, nested markup intact; as stated,     *)
(* nothing else in the document changes.                                   *)
(***************************************************************************)
AcceptedAsTag ==
  /\ call.op = "acceptSuggestion"
  /\ TargetIsSuggestion
  /\ call.mode \in {"addition", "correction"}

C9_WitnessMerged ==
  /\ AcceptedAsTag
  /\ IsValidName(call.type)
  /\ ~call.threw
  /\ ResultTree # WithTargetReplacedBy(<<El(call.type, TargetTree.childNodes)>>)

(***************************************************************************)
(* C10.  After the accept-all of a scope (the active page's div, or the    *)
(* root element), no suggestion element is left below the scope root, no   *)
(* error is raised, and every suggestion, nested ones included, has been   *)
(* resolved exactly once: the scope's subtree is the one obtained by       *)
(* resolving each suggestion, innermost first, by its own mode and type    *)
(* (type "name" when it has none), and the rest of the document is as      *)
(* before.                                                                 *)
(***************************************************************************)
RECURSIVE ResolvedTrees(_)
RECURSIVE ResolvedKids(_)
RECURSIVE WithoutEntityWrappers(_)
\* The trees that take the place of t once every suggestion in it is
\* resolved.
ResolvedTrees(t) ==
  IF t.nodeType # "element" THEN <<t>>
  ELSE LET kids == ResolvedKids(t.childNodes)
       IN IF t.tagName # "suggestion" THEN <<[t EXCEPT !.childNodes = kids]>>
          ELSE IF t.attrs.mode = "deletion" THEN WithoutEntityWrappers(kids)
          ELSE <<El(IF t.attrs.type \in {NoAttr, ""} THEN "name" ELSE t.attrs.type, kids)>>

ResolvedKids(kids) ==
  IF kids = <<>> THEN <<>>
  ELSE ResolvedTrees(kids[1]) \o ResolvedKids(Tail(kids))

\* kids with each entity element among them replaced by its children.
WithoutEntityWrappers(kids) ==
  IF kids = <<>> THEN <<>>
  ELSE (IF kids[1].nodeType = "element" /\ IsEntityTag(ToLowerCase(kids[1].tagName))
          THEN kids[1].childNodes ELSE <<kids[1]>>)
         \o WithoutEntityWrappers(Tail(kids))

\* The position of the scope root in the document before the call: the
\* active page's div when the scope is the page and that page exists, the
\* root element otherwise.
ScopeIndices ==
  IF call.scope = "page" /\ call.activePageIndex < Len(getPages(BeforeHeap, 1))
    THEN PathIndices(BeforeHeap, getPages(BeforeHeap, 1)[call.activePageIndex + 1].node)
  ELSE PathIndices(BeforeHeap, DocumentElement(BeforeHeap, 1))

ScopeTree == TreeAt(call.before, ScopeIndices)

C10_WitnessNested ==
  /\ call.op = "acceptAll"
  /\ ~call.threw
  /\ \E i \in 1..Len(ScopeTree.childNodes) :
        /\ ScopeTree.childNodes[i].tagName = "suggestion"
        /\ CountElements(ScopeTree.childNodes[i], {"suggestion"}) = 2
  /\ Suggestions(ResultTree) = 0

\* A page scope: suggestions of the other page are left alone.
C10_WitnessPage ==
  /\ call.op = "acceptAll"
  /\ call.scope = "page" /\ Len(ScopeIndices) > 1
  /\ ~call.threw
  /\ Suggestions(ScopeTree) > 0
  /\ Suggestions(ResultTree) > 0

(***************************************************************************)
(* C11.  The accept-all of a scope produces the very tree that             *)
(* acceptSuggestion produces when it is applied to the suggestions under   *)
(* the scope root one at a time, last in document order first, each with   *)
(* the mode and type of its own attributes (type "name" when absent).      *)
(***************************************************************************)
RECURSIVE AcceptOneByOne(_, _)
\* The document tree after acceptSuggestion has been called, again and
\* again, on the last suggestion below the node at scopeIndices.
AcceptOneByOne(tree, scopeIndices) ==
  LET h == Alloc(<<>>, tree, NULL)
      scopeRoot == NodeAtPath(h, 1, FormatPath(scopeIndices))
      suggestions == QuerySelectorAll(h, scopeRoot, "suggestion")
  IN IF suggestions = <<>> THEN tree
     ELSE LET s == suggestions[Len(suggestions)]
              r == acceptSuggestion(h, 1, FormatPath(PathIndices(h, s)),
                                    h[s].attrs.mode, OrElse(h[s].attrs.type, "name"))
          IN IF r.threw THEN tree
             ELSE AcceptOneByOne(ToTree(r.heap, r.ret), scopeIndices)

C11_AcceptAllIsSequentialAccept ==
  call.op = "acceptAll" =>
    /\ ~call.threw
    /\ ResultTree = AcceptOneByOne(call.before, ScopeIndices)

\* The two trees hold the same markup and text once both are put in
\* text-run normal form.
C11_SameUpToTextRuns ==
  call.op = "acceptAll" =>
    /\ ~call.threw
    /\ NormalizeTree(ResultTree) = NormalizeTree(AcceptOneByOne(call.before, ScopeIndices))

\* An accept-all that left two adjacent text runs where the one-by-one
\* accept leaves a single one.
C11_AcceptAllLeavesTextRuns ==
  /\ call.op = "acceptAll"
  /\ ~call.threw
  /\ Suggestions(ScopeTree) > 0
  /\ ResultTree # AcceptOneByOne(call.before, ScopeIndices)
  /\ NormalizeTree(ResultTree) = AcceptOneByOne(call.before, ScopeIndices)

(***************************************************************************)
(* C12.  Well-formedness is preserved: when the document has exactly one   *)
(* root element and no text directly under the document node, so has the   *)
(* document returned by wrapSelectionInTag, unwrapTag, replaceNode,        *)
(* updateNodeText, acceptSuggestion or declineSuggestion, for any path,    *)
(* the path of the root element included.                                  *)
(***************************************************************************)
\* Exactly one element and no text among the children of the document node.
WellFormed(t) ==
  /\ t.nodeType = "document"
  /\ Len(SelectSeq(t.childNodes, LAMBDA k : k.nodeType = "element")) = 1
  /\ Len(SelectSeq(t.childNodes, LAMBDA k : k.nodeType = "text")) = 0

C12_WellFormednessPreserved ==
  (call.op \in MutatorOps /\ WellFormed(call.before) /\ call.ret # NULL) =>
    WellFormed(ResultTree)

\* The same for the paths that name a node below the root element.
C12_WellFormedBelowRoot ==
  (call.op \in MutatorOps /\ WellFormed(call.before) /\ call.ret # NULL
     /\ Target # NULL /\ Len(TargetIndices) > 1) =>
    WellFormed(ResultTree)

\* A call on the root element returned a document without a root element.
C12_RootElementLost ==
  /\ call.op \in MutatorOps /\ WellFormed(call.before) /\ call.ret # NULL
  /\ Target # NULL /\ Len(TargetIndices) = 1
  /\ ~WellFormed(ResultTree)

(***************************************************************************)
(* C13.  Round trip: every document a mutator or the accept-all returns,   *)
(* and every document they start from (documents left by the fragment      *)
(* splice and by the accept-all included), is structurally equal to the    *)
(* parse of its own serialization: same tags, attributes, text, child      *)
(* order and child counts.                                                 *)
(***************************************************************************)
RoundTrips(t) == \A engine \in Engines : parseXML(SerializeNode(t), engine) = t

C13_RoundTrip ==
  /\ RoundTrips(ToTree(heap, xmlDoc))
  /\ (call.op \in MutatorOps \cup {"acceptAll"} /\ call.ret # NULL) => RoundTrips(ResultTree)

\* The round trip of a well-formed document gives its text-run normal form.
C13_RoundTripNormalizes ==
  /\ \A engine \in Engines :
        parseXML(SerializeNode(ToTree(heap, xmlDoc)), engine)
          = NormalizeTree(ToTree(heap, xmlDoc))
  /\ (call.op \in MutatorOps \cup {"acceptAll"} /\ call.ret # NULL /\ WellFormed(ResultTree)) =>
       \A engine \in Engines :
          parseXML(SerializeNode(ResultTree), engine) = NormalizeTree(ResultTree)

\* An accept-all returned a document that its round trip changes.
C13_AcceptAllBreaksRoundTrip ==
  /\ call.op = "acceptAll" /\ call.ret # NULL
  /\ RoundTrips(call.before)
  /\ ~RoundTrips(ResultTree)

\* A text holding a markup character comes back from the round trip.
C13_EscapedTextRoundTrips ==
  /\ call.op = "updateNodeText" /\ call.ret # NULL
  /\ call.newText = <<"x", "<">>
  /\ ResultTree # call.before
  /\ RoundTrips(ResultTree)

(***************************************************************************)
(* C14.  For every page of getPages(doc), getNodeByPath(doc, page.path) is *)
(* page.node, and the pages are listed in document order: the index        *)
(* sequences of their paths increase strictly in lexicographic order.      *)
(***************************************************************************)
RECURSIVE LexLess(_, _)
\* Strict lexicographic order of index sequences.
LexLess(a, b) ==
  IF b = <<>> THEN FALSE
  ELSE IF a = <<>> THEN TRUE
  ELSE IF a[1] # b[1] THEN a[1] < b[1]
  ELSE LexLess(Tail(a), Tail(b))

IsPrefix(a, b) == Len(a) <= Len(b) /\ SubSeq(b, 1, Len(a)) = a

C14_PagesResolveInOrder ==
  call.op = "getPages" =>
    /\ \A i \in 1..Len(call.pages) :
          /\ getNodeByPath(heap, xmlDoc, call.pages[i].path) = call.pages[i].node
          /\ FormatPath(PathIndices(heap, call.pages[i].node)) = call.pages[i].path
    /\ \A i \in 1..(Len(call.pages) - 1) :
          LexLess(PathIndices(heap, call.pages[i].node),
                  PathIndices(heap, call.pages[i + 1].node))

\* Three pages, the first one two levels below the root element.
C14_Witness ==
  /\ call.op = "getPages"
  /\ Len(call.pages) = 3
  /\ Len(PathIndices(heap, call.pages[1].node)) = 2
  /\ PathIndices(heap, call.pages[3].node)[2] = 3

(***************************************************************************)
(* C15.  Pages do not nest: getPages(doc) lists exactly the div elements   *)
(* that have no div ancestor, each once; a div inside a div is no page,    *)
(* and no page's path is a prefix of another page's path.                  *)
(***************************************************************************)
IsDiv(h, n) == IsElement(h, n) /\ ToLowerCase(h[n].tagName) = "div"

\* The div elements of the document that no other div contains.
OutermostDivs ==
  { n \in NodesOf(heap, xmlDoc) :
      /\ IsDiv(heap, n)
      /\ \A a \in NodesOf(heap, xmlDoc) :
            (a # n /\ IsInclusiveAncestor(heap, a, n)) => ~IsDiv(heap, a) }

C15_PagesDoNotNest ==
  call.op = "getPages" =>
    /\ {call.pages[i].node : i \in 1..Len(call.pages)} = OutermostDivs
    /\ Len(call.pages) = Cardinality(OutermostDivs)
    /\ \A i, j \in 1..Len(call.pages) :
          i # j => ~IsPrefix(PathIndices(heap, call.pages[i].node),
                             PathIndices(heap, call.pages[j].node))

\* A document with a div inside a page: the inner div is no page.
C15_Witness ==
  /\ call.op = "getPages"
  /\ Len(call.pages) >= 2
  /\ \E n \in NodesOf(heap, xmlDoc) : IsDiv(heap, n) /\ n \notin OutermostDivs
  /\ \E i \in 1..Len(call.pages) :
        CountElementsIn(ToTree(heap, call.pages[i].node).childNodes, {"div"}) > 0

(***************************************************************************)
(* C20.  replaceNode on a path that resolves to a node with a parent       *)
(* returns a document in which the node at the path is a deep copy of      *)
(* newNode and everything outside that subtree is as before; newNode stays *)
(* attached and unmodified in its own document.                            *)
(***************************************************************************)
\* The tree of newNode when the call was made: the root element of the
\* document it came from.
NewNodeTree == call.mid.childNodes[1]

\* newNode is still the root element of its document, which is as it was.
NewNodeUntouched ==
  /\ heap[call.newNode].parentNode # NULL
  /\ heap[call.newNode].parentNode # call.ret
  /\ ToTree(heap, heap[call.newNode].parentNode) = call.mid

C20_ReplaceNodeFrame ==
  (call.op = "replaceNode" /\ HasParent) =>
    /\ ~call.threw
    /\ ResultTree = WithTargetReplacedBy(<<NewNodeTree>>)
    /\ ResultAtPath # call.newNode
    /\ NewNodeUntouched

\* Replacing a node that is no element and stands directly under the
\* Document node while the document has its root element.
SecondRootElement ==
  /\ Len(TargetIndices) = 1
  /\ ~TargetIsElement
  /\ Len(SelectSeq(call.before.childNodes, LAMBDA k : k.nodeType = "element")) > 0

\* What the code does: the same, except that replacing a comment that
\* stands directly under the Document node by an element, in a document
\* that has its root element, is refused by the DOM: the call raises an
\* error and returns no document.  newNode is untouched in both cases.
C20_ReplaceNodeFrameOrRefusal ==
  (call.op = "replaceNode" /\ HasParent) =>
    /\ NewNodeUntouched
    /\ IF SecondRootElement THEN call.threw /\ call.ret = NULL
       ELSE /\ ~call.threw
            /\ ResultTree = WithTargetReplacedBy(<<NewNodeTree>>)
            /\ ResultAtPath # call.newNode

\* A page below the root element was replaced; its siblings are as before.
C20_Witness ==
  /\ call.op = "replaceNode" /\ HasParent
  /\ TargetIsElement /\ BeforeHeap[Target].tagName = "div"
  /\ Len(ParentTree.childNodes) >= 2
  /\ ~call.threw
  /\ ToTree(heap, ResultAtPath) = NewNodeTree
  /\ ToTree(heap, ResultAtPath) # TargetTree
  /\ NewNodeUntouched

\* A comment before the root element was to be replaced by an element.
C20_SecondRootRefused ==
  /\ call.op = "replaceNode" /\ HasParent
  /\ SecondRootElement
  /\ call.threw

\* The root element itself was replaced.
C20_WitnessRoot ==
  /\ call.op = "replaceNode" /\ TargetIsElement /\ Len(TargetIndices) = 1
  /\ ~call.threw
  /\ ResultTree # call.before


(***************************************************************************)
(* C16.  The history push of updateXmlDoc.                                 *)
(***************************************************************************)
\* The history is `history` cut after the cursor, followed by the
\* serialization of the document the last handler installed, and the
\* cursor is on that last entry.
PushedOnto(history, historyIndex) ==
  /\ app.history = Append(SubSeq(history, 1, historyIndex + 1),
                          SerializeNode(app.last.newDoc))
  /\ app.historyIndex = Len(app.history) - 1
  /\ \A j \in 1..(historyIndex + 1) : app.history[j] = history[j]

\* C16: every document update performed through updateXmlDoc with the
\* cursor at position i replaces the history by its entries [0..i] followed
\* by the serialization of the new document and sets the cursor to the new
\* last index; entries after i are discarded, entries [0..i] are unchanged.
C16_HistoryPush ==
  app.last.updated => PushedOnto(app.last.history, app.last.historyIndex)

\* What the code does: the push is made onto the history and cursor of the
\* render in which the handler was created, which for the part of an async
\* handler after its await is the render in which the call was started.
C16_HistoryPushOntoClosure ==
  app.last.updated =>
    IF app.last.pending.kind = "none"
      THEN PushedOnto(app.last.history, app.last.historyIndex)
    ELSE PushedOnto(app.last.pending.history, app.last.pending.historyIndex)

\* A handler has pushed onto the history while the cursor was at the end.
C16_PushAtEnd ==
  /\ app.last.updated
  /\ app.last.pending.kind = "none"
  /\ app.last.historyIndex = Len(app.last.history) - 1
  /\ Len(app.history) = Len(app.last.history) + 1

\* A handler has pushed after an undo: the undone entry is discarded.
C16_PushAfterUndo ==
  /\ app.last.updated
  /\ app.last.historyIndex < Len(app.last.history) - 1
  /\ Len(app.history) = app.last.historyIndex + 2

\* A service call has come back after an edit made while it was awaited:
\* the entry of that edit is overwritten.
C16_PushOntoStaleHistory ==
  /\ app.last.updated
  /\ app.last.pending.kind = "review"
  /\ app.last.pending.history # app.last.history
  /\ app.last.historyIndex = Len(app.last.history) - 1
  /\ Len(app.history) = Len(app.last.history)


(***************************************************************************)
(* C17.  Undo.                                                             *)
(***************************************************************************)
RECURSIVE UndosThatSucceed(_)
\* How many presses of undo in a row move the cursor.
UndosThatSucceed(a) ==
  IF handleUndo(a) = a THEN 0 ELSE 1 + UndosThatSucceed(handleUndo(a))

\* How many handlers since the file was loaded have updated the document.
Updates == Len(SelectSeq(app.trace, LAMBDA o : o = "update"))

\* No undo has been tried since the file was loaded.
NoUndoYet == \A j \in 1..Len(app.trace) : app.trace[j] \notin {"undo", "noUndo"}

\* What handleUndo has done to the document, the history and the cursor.
UndoStep ==
  IF app.last.historyIndex <= 0
    THEN /\ Live = app.last.doc
         /\ app.history = app.last.history
         /\ app.historyIndex = app.last.historyIndex
  ELSE /\ app.historyIndex = app.last.historyIndex - 1
       /\ Live = parseXML(app.history[app.historyIndex + 1], app.engine)
       /\ app.history = app.last.history

\* C17: with the cursor at or before 0, handleUndo changes neither the live
\* document, the history nor the cursor; otherwise it moves the cursor back
\* by one, makes the live document the re-parse of the snapshot at the new
\* cursor and leaves the history unchanged.  After k updates from a freshly
\* loaded document exactly k undos succeed and the next one is a no-op.
C17_Undo ==
  /\ app.last.op = "handleUndo" => UndoStep
  /\ NoUndoYet => UndosThatSucceed(app) = Updates

\* The first part on its own holds: one press of undo.
C17_UndoStep == app.last.op = "handleUndo" => UndoStep

\* The count of undos holds as long as no service call has come back.
C17_UndoCountWithoutServiceCall ==
  (NoUndoYet /\ \A j \in 1..Len(app.trace) : app.trace[j] # "await")
    => UndosThatSucceed(app) = Updates

\* Undo has moved the cursor back, and undo has found the cursor at 0.
C17_UndoMoved ==
  /\ app.last.op = "handleUndo"
  /\ app.last.historyIndex > 0
  /\ Live # app.last.doc

C17_UndoAtStart ==
  /\ app.last.op = "handleUndo"
  /\ app.last.historyIndex = 0
  /\ Updates > 0

\* Two updates, one of them by a service call that came back after the
\* other: one undo is left.
C17_TwoUpdatesOneUndo ==
  /\ NoUndoYet
  /\ Updates = 2
  /\ UndosThatSucceed(app) = 1


(***************************************************************************)
(* C18.  Malformed markup from a service.                                  *)
(***************************************************************************)
\* The last handler is the part of handleReview / handleAutoTagSelection
\* after the await, and the service has returned a string.
ReviewReturned ==
  app.last.pending.kind = "review" /\ app.last.response.kind = "resolved"

AnnotateReturned ==
  app.last.pending.kind = "autoTag" /\ app.last.response.kind = "resolved"

\* The returned string as markup: a review is a document, an annotation is
\* the content of an element.
MalformedReview == ~IsWellFormedXml(app.last.response.text)

MalformedAnnotation ==
  ~IsWellFormedXml(<<Unit("start", "root", NoAttrs, <<>>)>> \o app.last.response.text
                     \o <<Unit("end", "root", NoAttrs, <<>>)>>)

\* The last handler has left the document, the history and the cursor as
\* they were.
NothingChanged ==
  /\ Live = app.last.doc
  /\ app.history = app.last.history
  /\ app.historyIndex = app.last.historyIndex

\* C18: whenever the review service or the auto-annotate service returns a
\* string that does not parse as well-formed XML, the live document, the
\* history and the cursor are left unchanged and an error message is set.
C18_MalformedIsReportedError ==
  (\/ ReviewReturned /\ MalformedReview
   \/ AnnotateReturned /\ MalformedAnnotation)
    => NothingChanged /\ app.errorMsg # NoAttr

\* handleReview does as promised.
C18_MalformedReviewRejected ==
  (ReviewReturned /\ MalformedReview) => NothingChanged /\ app.errorMsg # NoAttr

C18_MalformedReviewSeen ==
  /\ ReviewReturned
  /\ MalformedReview
  /\ app.errorMsg = "Parsing Error"

\* handleAutoTagSelection splices the parser's error report into the
\* document, pushes it onto the history and reports nothing.
C18_MalformedAnnotationApplied ==
  /\ AnnotateReturned
  /\ MalformedAnnotation
  /\ app.last.updated
  /\ Live # app.last.doc
  /\ Len(app.history) = Len(app.last.history) + 1
  /\ app.errorMsg = NoAttr


(***************************************************************************)
(* C19.  A service call is applied as a whole or not at all.               *)
(***************************************************************************)
\* The last handler is the part of a service call after its await.
CallFinished == app.last.pending.kind # "none"

\* The call has installed its document and added one entry to the history
\* as it was.
AppliedWithOneEntry ==
  /\ app.last.updated
  /\ Live = app.last.newDoc
  /\ Len(app.history) = Len(SubSeq(app.last.history, 1, app.last.historyIndex + 1)) + 1
  /\ SubSeq(app.history, 1, Len(app.history) - 1)
       = SubSeq(app.last.history, 1, app.last.historyIndex + 1)
  /\ app.history[Len(app.history)] = SerializeNode(Live)
  /\ app.historyIndex = Len(app.history) - 1

\* C19: for every handleReview and handleAutoTagSelection invocation, either
\* the whole replace / fragment splice is applied to the live document and
\* exactly one history entry is pushed, or the live document, history and
\* cursor are exactly as before; in both cases isProcessing is false again
\* once the invocation has finished.
C19_ServiceCallAtomic ==
  CallFinished =>
    /\ ~app.isProcessing
    /\ \/ AppliedWithOneEntry
       \/ ~app.last.updated /\ NothingChanged

\* Nothing has happened between the start of the call and its return.
Uninterrupted ==
  /\ app.last.pending.doc = app.last.doc
  /\ app.last.pending.history = app.last.history
  /\ app.last.pending.historyIndex = app.last.historyIndex

\* For a call during which the user did nothing both cases are as stated.
C19_AtomicWhenUninterrupted ==
  (CallFinished /\ Uninterrupted) =>
    /\ ~app.isProcessing
    /\ \/ AppliedWithOneEntry
       \/ ~app.last.updated /\ NothingChanged

\* In every case the document and the history entry go together, and a
\* failed call changes nothing.
C19_AllOrNothing ==
  CallFinished =>
    /\ ~app.isProcessing
    /\ app.pending = NoPending
    /\ IF app.last.updated
         THEN /\ Live = app.last.newDoc
              /\ app.history[app.historyIndex + 1] = SerializeNode(Live)
       ELSE NothingChanged

C19_Applied ==
  /\ CallFinished
  /\ Uninterrupted
  /\ AppliedWithOneEntry
  /\ Live # app.last.doc

C19_Failed ==
  /\ CallFinished
  /\ app.last.response.kind = "rejected"
  /\ NothingChanged
  /\ app.errorMsg # NoAttr

\* A call that came back after an edit: its entry takes the place of the
\* edit's entry.
C19_EntryReplaced ==
  /\ CallFinished
  /\ app.last.updated
  /\ ~Uninterrupted
  /\ Len(app.history) = Len(app.last.history)
  /\ app.last.historyIndex = Len(app.last.history) - 1


(***************************************************************************)
(* C21.  updateNodeText.                                                   *)
(***************************************************************************)
UpdatedText ==
  call.op = "updateNodeText" /\ (TargetIsText \/ TargetIsElement)

\* The target holding newText and nothing else: a Text node with that data,
\* an element with that one text run.
TargetWithText ==
  IF TargetIsText THEN Txt(call.newText)
  ELSE [TargetTree EXCEPT !.childNodes = <<Txt(call.newText)>>]

\* C21: updateNodeText on a path that resolves to a Text or Element node
\* sets the node's entire text content to newText (an Element loses its
\* child markup and keeps a single text run) and then normalizes the
\* parent; the node's siblings are otherwise unchanged.
C21_TextContentSet ==
  UpdatedText =>
    /\ ~call.threw
    /\ ResultAtPath # NULL
    /\ ToTree(heap, ResultAtPath) = TargetWithText
    /\ ResultTree = WithTargetReplacedNormalized(<<TargetWithText>>)

\* The same with the normalization applied to the node itself: an empty
\* newText leaves an Element without children and removes a Text node, and
\* a Text node next to another one is merged with it.
C21_TextContentSetThenNormalized ==
  UpdatedText =>
    /\ ~call.threw
    /\ ResultTree
         = WithTargetReplacedNormalized(
             <<IF TargetIsText THEN Txt(call.newText)
               ELSE [TargetTree EXCEPT !.childNodes = TextPiece(call.newText)]>>)

\* An element with markup below it has been given a text.
C21_Witness ==
  /\ UpdatedText
  /\ TargetIsElement
  /\ \E i \in 1..Len(TargetTree.childNodes) : TargetTree.childNodes[i].nodeType = "element"
  /\ call.newText # <<>>
  /\ TreeAt(ResultTree, TargetIndices).childNodes = <<Txt(call.newText)>>
  /\ Len(SiblingsBefore) + Len(SiblingsAfter) > 0

\* A Text node has been given the empty text and is gone.
C21_WitnessEmptied ==
  /\ UpdatedText
  /\ TargetIsText
  /\ call.newText = <<>>
  /\ Len(TreeAt(ResultTree, ParentIndices).childNodes) < Len(ParentTree.childNodes)


(***************************************************************************)
(* C22.  declineSuggestion on an element that is no suggestion.            *)
(***************************************************************************)
DeclinedOther ==
  call.op = "declineSuggestion" /\ TargetIsElement /\ ~TargetIsSuggestion

\* C22: declineSuggestion on a path that resolves to an element that is not
\* a suggestion (a paragraph, an entity element) returns the input document
\* unchanged.
C22_DeclineOnlySuggestions ==
  DeclinedOther => ~call.threw /\ call.ret # NULL /\ ResultTree = call.before

\* What the code does: declineSuggestion is unwrapTag and looks at no tag
\* name.  Below the root element the element is replaced by its children.
C22_DeclineUnwrapsAnyElement ==
  (DeclinedOther /\ Len(TargetIndices) > 1) =>
    /\ ~call.threw
    /\ ResultTree = WithTargetReplacedNormalized(TargetTree.childNodes)

\* An entity element has been declined away.
C22_EntityUnwrapped ==
  /\ DeclinedOther
  /\ TargetTree.tagName = "persName"
  /\ ~call.threw
  /\ CountElements(ResultTree, {"persName"}) < CountElements(call.before, {"persName"})


(***************************************************************************)
(* C23.  Page containers inside the header.                                *)
(***************************************************************************)
\* Node n lies inside a teiHeader element.
InHeader(h, n) ==
  \E a \in 1..Len(h) :
    /\ IsElement(h, a)
    /\ h[a].tagName = "teiHeader"
    /\ a # n
    /\ IsInclusiveAncestor(h, a, n)

\* C23: getPages never emits a page for a div located inside the header
\* element (teiHeader), for any document.
C23_HeaderSuppressed ==
  call.op = "getPages" =>
    \A i \in 1..Len(call.pages) : ~InHeader(heap, call.pages[i].node)

\* getPages has emitted a page for a div of the header, ahead of the pages
\* of the body.
C23_HeaderPageEmitted ==
  /\ call.op = "getPages"
  /\ Len(call.pages) > 1
  /\ InHeader(heap, call.pages[1].node)
  /\ ~InHeader(heap, call.pages[2].node)


(***************************************************************************)
(* C24.  Text-run normal form.                                             *)
(***************************************************************************)
RECURSIVE TextRunNormal(_)
\* No node of t has two adjacent Text children.
TextRunNormal(t) ==
  /\ NoAdjacentText(t.childNodes)
  /\ \A i \in 1..Len(t.childNodes) : TextRunNormal(t.childNodes[i])

\* C24: from a document in which no element has two adjacent text-node
\* children, the document produced by wrapSelectionInTag, unwrapTag,
\* replaceNode, updateNodeText, acceptSuggestion, declineSuggestion or
\* acceptAllSuggestionsInNode again has no element with two adjacent
\* text-node children.
C24_NormalFormKept ==
  (/\ call.op \in MutatorOps \cup {"acceptAll"}
   /\ call.ret # NULL
   /\ TextRunNormal(call.before))
    => TextRunNormal(ResultTree)

\* The six utilities that work on a path keep the normal form.
C24_NormalFormKeptByPathUtilities ==
  (call.op \in MutatorOps /\ call.ret # NULL /\ TextRunNormal(call.before))
    => TextRunNormal(ResultTree)

\* Accept-all has left two text nodes side by side.
C24_AcceptAllLeavesAdjacentText ==
  /\ call.op = "acceptAll"
  /\ call.ret # NULL
  /\ TextRunNormal(call.before)
  /\ ~TextRunNormal(ResultTree)


(***************************************************************************)
(* C28.  The renderer's paths against the resolver.                        *)
(***************************************************************************)
\* The drawn nodes that carry a non-empty path.
DrawnWithPath == SelectSeq(call.drawn, LAMBDA d : d.path # <<>>)

\* C28: for every node that XmlNodeRenderer draws with a non-empty path,
\* getNodeByPath(xmlDoc, path) returns that same node, both when the view
\* is rooted at a page and when the document has no pages and the view is
\* rooted at the document element with root path "".
C28_RendererPathsResolve ==
  call.op = "render" =>
    \A i \in 1..Len(DrawnWithPath) :
      getNodeByPath(heap, xmlDoc, DrawnWithPath[i].path) = DrawnWithPath[i].node

\* Some node below the view's root lies inside an fw element.
InsideFw(h, n) ==
  \E a \in 1..Len(h) :
    IsElement(h, a) /\ h[a].tagName = "fw" /\ a # n /\ IsInclusiveAncestor(h, a, n)

\* In a view rooted at a page the paths are right for every node that is
\* not inside an fw element.
C28_PagePathsResolve ==
  (call.op = "render" /\ Len(call.pages) > 0) =>
    \A i \in 1..Len(DrawnWithPath) :
      ~InsideFw(heap, DrawnWithPath[i].node) =>
        getNodeByPath(heap, xmlDoc, DrawnWithPath[i].path) = DrawnWithPath[i].node

\* In a document without pages no path below the root names its node: the
\* path lacks the index of the document element.
C28_RootPathsOff ==
  (call.op = "render" /\ Len(call.pages) = 0) =>
    \A i \in 1..Len(DrawnWithPath) :
      getNodeByPath(heap, xmlDoc, DrawnWithPath[i].path) # DrawnWithPath[i].node

C28_PageViewDrawn ==
  /\ call.op = "render"
  /\ Len(call.pages) > 1
  /\ call.activePageIndex = 1
  /\ Len(DrawnWithPath) > 1
  /\ \A i \in 1..Len(DrawnWithPath) :
       getNodeByPath(heap, xmlDoc, DrawnWithPath[i].path) = DrawnWithPath[i].node

\* An entity drawn in a document without pages under the path of the
\* document element.
C28_EntityUnderRootPath ==
  /\ call.op = "render"
  /\ Len(call.pages) = 0
  /\ \E i \in 1..Len(call.drawn) :
       /\ call.drawn[i].control = "entity"
       /\ call.drawn[i].path = <<"0">>
       /\ getNodeByPath(heap, xmlDoc, <<"0">>) = DocumentElement(heap, xmlDoc)
       /\ call.drawn[i].node # DocumentElement(heap, xmlDoc)

\* A text inside fw drawn under a path that starts again from nothing.
C28_FwPathsOff ==
  /\ call.op = "render"
  /\ Len(call.pages) > 0
  /\ \E i \in 1..Len(DrawnWithPath) :
       /\ InsideFw(heap, DrawnWithPath[i].node)
       /\ getNodeByPath(heap, xmlDoc, DrawnWithPath[i].path) # DrawnWithPath[i].node


(***************************************************************************)
(* C25.  The history entry under the cursor and the live document.         *)
(***************************************************************************)
CursorInRange == 0 <= app.historyIndex /\ app.historyIndex < Len(app.history)

\* The entry under the cursor.
Snapshot == app.history[app.historyIndex + 1]

\* The live document is still the one the file was parsed into: no handler
\* has updated the document or gone back in the history since the load.
FreshlyLoaded == \A j \in 1..Len(app.trace) : app.trace[j] \notin {"update", "undo"}

\* C25: in every state in which a document is loaded, the cursor is within
\* the history and the entry under it is the serialized form of the live
\* document (for a freshly loaded file, the text it was parsed from).
C25_HistoryMatchesDocument ==
  /\ CursorInRange
  /\ IF FreshlyLoaded THEN Live = parseXML(Snapshot, app.engine)
     ELSE Snapshot = SerializeNode(Live)

\* The entry under the cursor is the text the live document was serialized
\* to or, after a load and after an undo, the text it was parsed from; the
\* two differ when undo goes back to the text of the file.
C25_HistoryMatchesDocumentOrItsSource ==
  /\ CursorInRange
  /\ \/ Snapshot = SerializeNode(Live)
     \/ Live = parseXML(Snapshot, app.engine)
  /\ app.last.updated => Snapshot = SerializeNode(Live)
  /\ app.last.outcome \in {"undo", "load"} => Live = parseXML(Snapshot, app.engine)

\* An update, an undo and another update: the second update's entry has
\* taken the place of the first one's.
C25_Witness ==
  /\ app.trace = <<"update", "undo", "update">>
  /\ Len(app.history) = 2
  /\ app.historyIndex = 1
  /\ Snapshot = SerializeNode(Live)
  /\ Snapshot # app.last.history[2]

\* Undo has gone back to the text of the file, which is not the text the
\* serializer writes.
C25_UndoneToFileText ==
  /\ app.last.outcome = "undo"
  /\ app.historyIndex = 0
  /\ Live = parseXML(Snapshot, app.engine)
  /\ Snapshot # SerializeNode(Live)


(***************************************************************************)
(* C26.  A change made while a service call is awaited.                    *)
(***************************************************************************)
\* Between the start of the call and its return the user has changed the
\* document or the history.
ChangedMeanwhile ==
  \/ app.last.doc # app.last.pending.doc
  \/ app.last.history # app.last.pending.history
  \/ app.last.historyIndex # app.last.pending.historyIndex

\* Where the call writes: the active page of a page review, the parent of
\* the selected node of an annotation, the whole document of a document
\* review.  The path is the one the call took when it was started.
WrittenPath(c) ==
  IF c.kind = "review"
    THEN IF c.scope = "document" THEN <<>>
         ELSE getPages(HeapOf(c.doc), 1)[c.activePageIndex + 1].path
  ELSE c.selectionState.path

\* `doc` with the part the call writes taken out: what a call that is
\* applied to `doc` must leave as it is.
Outside(doc, c) ==
  LET h == HeapOf(doc)
      n == getNodeByPath(h, 1, WrittenPath(c))
      indices == IF n = NULL THEN <<>> ELSE PathIndices(h, n)
      cut == IF c.kind = "autoTag" /\ indices # <<>>
               THEN SubSeq(indices, 1, Len(indices) - 1)
             ELSE indices
  IN IF n = NULL \/ c.scope = "document" THEN Doc(<<>>)
     ELSE WithSubtreeAt(doc, cut, Cmt(<<>>))

\* The entries up to the cursor, as they were before the response came.
HistoryKept ==
  \A j \in 1..(app.last.historyIndex + 1) :
    j <= Len(app.history) /\ app.history[j] = app.last.history[j]

\* C26: if the user changes the document between the start of a
\* handleReview or handleAutoTagSelection call and the arrival of its
\* response, then after the response is applied the live document still
\* contains that change and the history still contains its entry.
C26_NoLostUpdate ==
  (CallFinished /\ app.last.updated /\ ChangedMeanwhile) =>
    /\ HistoryKept
    /\ Outside(Live, app.last.pending) = Outside(app.last.doc, app.last.pending)

\* What the code does: the response is applied to the document and the
\* history of the moment the call was started.
C26_AppliedToStartOfCall ==
  (CallFinished /\ app.last.updated) =>
    /\ Outside(Live, app.last.pending)
         = Outside(app.last.pending.doc, app.last.pending)
    /\ SubSeq(app.history, 1, Len(app.history) - 1)
         = SubSeq(app.last.pending.history, 1, app.last.pending.historyIndex + 1)

\* A suggestion of page p2 was accepted while page p1 was under review;
\* the reviewed page has come back and the suggestion is there again.
C26_ChangeLost ==
  /\ CallFinished
  /\ app.last.updated
  /\ app.last.pending.kind = "review"
  /\ app.last.pending.scope = "page"
  /\ Suggestions(app.last.pending.doc) > Suggestions(app.last.doc)
  /\ Outside(Live, app.last.pending) = Outside(app.last.pending.doc, app.last.pending)
  /\ Outside(Live, app.last.pending) # Outside(app.last.doc, app.last.pending)
  /\ ~HistoryKept


(***************************************************************************)
(* C27.  An operation that returns the document unchanged.                 *)
(***************************************************************************)
\* handleApplyTag or handleAction has run, and the utility it called has
\* returned a document equal to the live one.
ReturnedUnchanged ==
  /\ app.last.op \in {"handleApplyTag", "handleAction"}
  /\ ~app.last.threw
  /\ app.last.outcome # "none"
  /\ app.last.newDoc = app.last.doc

\* C27: when handleApplyTag or handleAction invokes an operation that
\* returns the document unchanged (unresolvable path or wrong node kind),
\* history and historyIndex are unchanged.
C27_NoOpAddsNoHistory ==
  ReturnedUnchanged =>
    /\ app.history = app.last.history
    /\ app.historyIndex = app.last.historyIndex

\* What the code does: the returned document is not null, so it is handed
\* to updateXmlDoc and its serialization, equal to the entry before it, is
\* pushed.
C27_NoOpIsPushed ==
  ReturnedUnchanged =>
    /\ app.last.updated
    /\ Live = app.last.doc
    /\ app.historyIndex = app.last.historyIndex + 1
    /\ app.history[app.historyIndex + 1] = SerializeNode(app.last.doc)

\* The remove button of an entity in a document without pages: its path
\* names no node, the document stays as it is, the history grows.
C27_DuplicateEntry ==
  /\ ReturnedUnchanged
  /\ app.last.op = "handleAction"
  /\ app.last.historyIndex > 0
  /\ Len(app.history) = Len(app.last.history) + 1
  /\ app.history[app.historyIndex + 1] = app.history[app.historyIndex]


(***************************************************************************)
(* C29.  Reset Page.                                                       *)
(***************************************************************************)
\* The subtrees of the pages of a document, in the order of getPages.
PageTrees(doc) ==
  LET h == HeapOf(doc)
      pages == getPages(h, 1)
  IN [i \in 1..Len(pages) |-> ToTree(h, pages[i].node)]

\* The ids getPages gives the pages of a document.
PageIds(doc) ==
  LET pages == getPages(HeapOf(doc), 1)
  IN [i \in 1..Len(pages) |-> pages[i].id]

OriginalDom == parseXML(app.originalDoc, app.engine)

\* handleResetPage has run on a document that has pages.
ResetPressed ==
  /\ app.last.op = "handleResetPage"
  /\ PageTrees(app.last.doc) # <<>>

\* C29: after handleResetPage the subtree of the active page equals the
\* subtree the page at the same position had in the originally loaded
\* document, and every other page is unchanged, also when two pages carry
\* the same id or no id.
C29_ResetRestoresActivePage ==
  ResetPressed =>
    LET k == app.activePageIndex + 1
    IN /\ Len(PageTrees(Live)) = Len(PageTrees(app.last.doc))
       /\ k <= Len(PageTrees(OriginalDom))
       /\ PageTrees(Live)[k] = PageTrees(OriginalDom)[k]
       /\ \A i \in 1..Len(PageTrees(Live)) :
            i # k => PageTrees(Live)[i] = PageTrees(app.last.doc)[i]

\* What the code does: the active page is replaced by the first page of the
\* original document that has the id of the active page, and nothing
\* happens when the original document has no page of that id.
C29_ResetRestoresFirstPageOfThatId ==
  ResetPressed =>
    LET k == app.activePageIndex + 1
        id == PageIds(app.last.doc)[k]
        found == {j \in 1..Len(PageIds(OriginalDom)) : PageIds(OriginalDom)[j] = id}
    IN IF found = {}
         THEN ~app.last.updated /\ Live = app.last.doc
       ELSE /\ app.last.updated
            /\ Len(PageTrees(Live)) = Len(PageTrees(app.last.doc))
            /\ PageTrees(Live)[k] =
                 PageTrees(OriginalDom)[CHOOSE j \in found : \A l \in found : j <= l]
            /\ \A i \in 1..Len(PageTrees(Live)) :
                 i # k => PageTrees(Live)[i] = PageTrees(app.last.doc)[i]

\* With pages of distinct ids, in the original and in the live document
\* alike, the reset restores the page of the same position.
C29_ResetWithDistinctIds ==
  (/\ ResetPressed
   /\ PageIds(app.last.doc) = PageIds(OriginalDom)
   /\ \A i, j \in 1..Len(PageIds(OriginalDom)) :
        PageIds(OriginalDom)[i] = PageIds(OriginalDom)[j] => i = j)
    => C29_ResetRestoresActivePage

\* An edited page has been reset to what it was in the file.
C29_EditedPageRestored ==
  /\ ResetPressed
  /\ app.last.updated
  /\ PageTrees(app.last.doc) # PageTrees(OriginalDom)
  /\ PageTrees(Live) = PageTrees(OriginalDom)

\* The second of two pages with one id has been reset to the first.
C29_WrongPageRestored ==
  /\ ResetPressed
  /\ app.last.updated
  /\ app.activePageIndex = 1
  /\ PageIds(OriginalDom)[1] = PageIds(OriginalDom)[2]
  /\ PageTrees(Live)[2] = PageTrees(OriginalDom)[1]
  /\ PageTrees(Live)[2] # PageTrees(OriginalDom)[2]

\* A page without an id has been reset by its position.
C29_PageWithoutIdRestored ==
  /\ ResetPressed
  /\ app.last.updated
  /\ app.activePageIndex = 1
  /\ PageIds(OriginalDom) = <<"page-1", "page-2">>
  /\ PageTrees(app.last.doc)[2] # PageTrees(OriginalDom)[2]
  /\ PageTrees(Live)[2] = PageTrees(OriginalDom)[2]


(***************************************************************************)
(* retryOperation: the loop around one call of the service.               *)
(***************************************************************************)
DefaultRetries == 5

DefaultInitialDelay == 4000

\* The largest `retries` a call is made with.
MaxRetries == 5

\* a || b on numbers and on strings.
OrNumber(a, b) == IF a # 0 THEN a ELSE b

OrString(a, b) == IF a # <<>> THEN a ELSE b

\* s.includes(word) on a string held as its words.
Includes(s, word) == \E j \in 1..Len(s) : s[j] = word

\* JSON.stringify(error) of an Error instance: its own enumerable
\* properties, which message is not.
JSONStringify(error) ==
  <<ToString(error.status), ToString(error.code), ToString(error.error.code)>>
    \o error.error.message \o error.error.status
    \o <<ToString(error.response.status)>>

\* A loop that retries whatever the error is.
isRetryableAlways(error) == TRUE

isRetryable(error) ==
  LET errString == JSONStringify(error)
      errorCode == OrNumber(error.status,
                     OrNumber(error.code,
                       OrNumber(error.error.code, error.response.status)))
      errorMessage == OrString(error.message, error.error.message)
  IN \/ errorCode = 429
     \/ errorCode = 503
     \/ Includes(errorMessage, "429")
     \/ Includes(errorMessage, "RESOURCE_EXHAUSTED")
     \/ Includes(errorMessage, "Quota exceeded")
     \/ Includes(errString, "RESOURCE_EXHAUSTED")
     \/ Includes(errorMessage, "503")

\* The errors the operation rejects with.
Errors ==
  { [NoError EXCEPT !.status = 429, !.message = <<"Too Many Requests">>],
    [NoError EXCEPT !.code = 503],
    [NoError EXCEPT !.response.status = 503],
    [NoError EXCEPT !.message = <<"got status:", "429">>],
    [NoError EXCEPT !.error.message = <<"Quota exceeded">>],
    [NoError EXCEPT !.error.code = 8, !.error.status = <<"RESOURCE_EXHAUSTED">>],
    [NoError EXCEPT !.status = 400, !.message = <<"API key not valid">>],
    [NoError EXCEPT !.status = 500, !.error.code = 429],
    [NoError EXCEPT !.message = <<"fetch failed">>],
    [NoError EXCEPT !.message = <<"No response from AI">>] }

\* The values the operation resolves with.
Values == {"<p>abc</p>", ""}

Retrying(r) ==
  /\ retry' = r
  /\ UNCHANGED <<heap, xmlDoc, call, app>>

RetryInit ==
  /\ heap = HeapOf(Doc(<<>>))
  /\ xmlDoc = 1
  /\ call = NoCall
  /\ app = NoApp
  /\ retry = NoRetry

\* retryOperation(operation, retries): lastError undefined, delay =
\* initialDelay, i = 0.
Invoke ==
  /\ retry.pc = "idle"
  /\ \E retries \in 0..MaxRetries :
       Retrying([NoRetry EXCEPT !.pc = "for", !.retries = retries,
                                !.delay = DefaultInitialDelay])

\* A loop that does not test i < retries.
CallOperationUnbounded ==
  /\ retry.pc = "for"
  /\ Retrying([retry EXCEPT !.pc = "await", !.calls = @ + 1])

\* i < retries: operation() is called and awaited.
CallOperation ==
  /\ retry.pc = "for"
  /\ retry.i < retry.retries
  /\ Retrying([retry EXCEPT !.pc = "await", !.calls = @ + 1])

\* The awaited promise is fulfilled: return its value.
OperationFulfilled ==
  /\ retry.pc = "await"
  /\ \E v \in Values :
       Retrying([retry EXCEPT !.pc = "returned", !.result = v, !.value = v])

\* The awaited promise is rejected: the catch block.
OperationRejected ==
  /\ retry.pc = "await"
  /\ \E error \in Errors :
       Retrying([retry EXCEPT !.lastError = error,
                              !.rejected = Append(@, isRetryable(error)),
                              !.pc = IF isRetryable(error) THEN "sleep" ELSE "thrown",
                              !.result = IF isRetryable(error) THEN @ ELSE error])

\* The timer of sleep(delay) fires: delay *= 2, i++.
Wake ==
  /\ retry.pc = "sleep"
  /\ Retrying([retry EXCEPT !.pc = "for", !.delay = @ * 2, !.i = @ + 1])

\* i < retries is false: throw lastError.
Exhausted ==
  /\ retry.pc = "for"
  /\ retry.i >= retry.retries
  /\ Retrying([retry EXCEPT !.pc = "thrown", !.result = retry.lastError])

RetryNext ==
  \/ Invoke
  \/ CallOperation
  \/ OperationFulfilled
  \/ OperationRejected
  \/ Wake
  \/ Exhausted

RetrySpec == RetryInit /\ [][RetryNext]_vars

\* A timer that is set fires, and a continuation that is ready runs; a
\* promise of the operation need not ever settle.
RetryFairSpec ==
  RetrySpec /\ WF_vars(Wake) /\ WF_vars(Exhausted) /\ WF_vars(CallOperation)

(***************************************************************************)
(* C30.  retryOperation is bounded.                                        *)
(***************************************************************************)
RetryOver == retry.pc \in {"returned", "thrown"}

\* Every rejection but the last one seen was retryable.
RetryableBefore(n) == \A j \in 1..(n - 1) : retry.rejected[j]

C30_AtMostRetriesCalls == retry.calls <= retry.retries

C30_FirstSuccessReturned ==
  retry.pc = "returned" =>
    /\ retry.result = retry.value
    /\ retry.calls = Len(retry.rejected) + 1
    /\ \A j \in 1..Len(retry.rejected) : retry.rejected[j]

C30_NonRetryableRethrown ==
  (Len(retry.rejected) > 0 /\ ~retry.rejected[Len(retry.rejected)]) =>
    /\ retry.pc = "thrown"
    /\ retry.result = retry.lastError
    /\ ~isRetryable(retry.lastError)
    /\ retry.calls = Len(retry.rejected)

C30_ThrownIsLastError ==
  retry.pc = "thrown" =>
    /\ retry.result = retry.lastError
    /\ \/ retry.calls = retry.retries /\ \A j \in 1..retry.retries : retry.rejected[j]
       \/ Len(retry.rejected) > 0 /\ ~retry.rejected[Len(retry.rejected)]

\* `retries` retryable failures in a row have been seen.
AllAttemptsFailed ==
  /\ retry.pc # "idle"
  /\ Len(retry.rejected) = retry.retries
  /\ \A j \in 1..retry.retries : retry.rejected[j]

\* C30: retryOperation calls the operation at most `retries` times; it
\* returns the first successful result without any further call; on a
\* non-retryable error it rethrows that error at once without any further
\* call; and after `retries` retryable failures in a row it terminates by
\* throwing the last error.
C30_RetryBounded ==
  /\ [](C30_AtMostRetriesCalls /\ C30_FirstSuccessReturned
          /\ C30_NonRetryableRethrown /\ C30_ThrownIsLastError)
  /\ [][RetryOver => retry' = retry]_vars
  /\ (AllAttemptsFailed ~> (retry.pc = "thrown" /\ retry.result = retry.lastError))

\* The default five attempts have all failed with a quota or service
\* error and the last of them has been thrown.
C30_GaveUpAfterFiveCalls ==
  /\ retry.pc = "thrown"
  /\ retry.retries = DefaultRetries
  /\ retry.calls = DefaultRetries
  /\ AllAttemptsFailed
  /\ retry.result = retry.lastError
  /\ retry.delay = DefaultInitialDelay * 32

\* The third call succeeded after two retryable failures.
C30_ReturnedAfterRetries ==
  /\ retry.pc = "returned"
  /\ retry.calls = 3
  /\ retry.retries = DefaultRetries

\* A non-retryable error of the second call has been thrown.
C30_RethrownAtOnce ==
  /\ retry.pc = "thrown"
  /\ retry.calls = 2
  /\ retry.retries = DefaultRetries
  /\ ~isRetryable(retry.result)

=============================================================================
